---- MODULE Spec2Model ----
(***************************************************************************)
(* venue-scout: crowd-level reports, baselines, alert subscriptions and    *)
(* the alert run, modelled from the route handlers.                        *)
(*                                                                         *)
(* Time is in seconds.  A nullable timestamp is <<>> (NULL) or <<t>>.      *)
(* Every await on the storage client is a point where other requests may   *)
(* run, so each storage call of a handler is one step of that request.     *)
(***************************************************************************)
EXTENDS Integers, Sequences, FiniteSets, TLC

VARIABLES now, subs, subReq, runs, alerts, reports, uniqueConstraint,
          baselines, repReq, upserts, page, modal

vars == <<now, subs, subReq, runs, alerts, reports, uniqueConstraint,
          baselines, repReq, upserts, page, modal>>

-----------------------------------------------------------------------------
(* Bounds of the model *)

MaxRows == 3
MaxSubReq == 2
MaxRuns == 3
MaxAlerts == 4
MaxRepReq == 2
MaxHistory == 19
MaxScored == 3
MaxSubmits == 2

Venues == {"v1", "v2"}
Devices == {"d1", "d2"}
SubscribeDevices == {"d1"}
RaceDevices == {"d1", "d2", "d3"}
SubscribeVenues == {"v1"}
Thresholds == {1, 2}

NULL == <<>>
Some(t) == <<t>>
IsNull(x) == x = <<>>
ValueOf(x) == x[1]

Min(S) == CHOOSE x \in S : \A y \in S : x <= y

-----------------------------------------------------------------------------
(* The clock: Date.now() / new Date(), read at the instants of a grid *)

AlertInstants == {0, 59 * 60 + 30, 60 * 60, 61 * 60, 120 * 60}
\* The shorter grids of the specifications with overlapping runs, with failures
\* Instants of the report route: the 10 minute boundary and the next midnight
ReportInstants ==
  {20 * 600, 20 * 600 + 540, 20 * 600 + 600, 20 * 600 + 660,
   24 * 60 * 60, 24 * 60 * 60 + 600}
\* Instants of concurrent reports: two hours of one day
BucketInstants == {0, 60 * 60}
ShortInstants == {0, 59 * 60 + 30, 60 * 60}
FaultInstants == {0, 60 * 60}

Tick(I) ==
  /\ \E t \in I : t > now /\ now' = t
  /\ UNCHANGED <<subs, subReq, runs, alerts, reports, uniqueConstraint, baselines, repReq, upserts, page, modal>>

-----------------------------------------------------------------------------
(* Scoring: labelFromScore, labelToNumber, computeDecayedScore *)

\* ExpTable[m + 1] = round(10^6 * exp(-m / 30)) for m = 0 .. 360 minutes
ExpTable ==
  <<
     1000000, 967216, 935507, 904837, 875173, 846482, 818731, 791890, 765928, 740818,
     716531, 693041, 670320, 648344, 627089, 606531, 586646, 567414, 548812, 530819,
     513417, 496585, 480305, 464559, 449329, 434598, 420350, 406570, 393241, 380349,
     367879, 355819, 344154, 332871, 321958, 311403, 301194, 291320, 281769, 272532,
     263597, 254955, 246597, 238513, 230693, 223130, 215815, 208740, 201897, 195278,
     188876, 182684, 176694, 170902, 165299, 159880, 154638, 149569, 144665, 139922,
     135335, 130898, 126607, 122456, 118442, 114559, 110803, 107171, 103657, 100259,
     96972, 93793, 90718, 87744, 84867, 82085, 79394, 76791, 74274, 71839,
     69483, 67206, 65002, 62871, 60810, 58816, 56888, 55023, 53219, 51475,
     49787, 48155, 46576, 45049, 43572, 42144, 40762, 39426, 38133, 36883,
     35674, 34504, 33373, 32279, 31221, 30197, 29207, 28250, 27324, 26428,
     25562, 24724, 23913, 23129, 22371, 21637, 20928, 20242, 19578, 18936,
     18316, 17715, 17134, 16573, 16029, 15504, 14996, 14504, 14028, 13569,
     13124, 12693, 12277, 11875, 11486, 11109, 10745, 10393, 10052, 9722,
     9404, 9095, 8797, 8509, 8230, 7960, 7699, 7447, 7202, 6966,
     6738, 6517, 6303, 6097, 5897, 5704, 5517, 5336, 5161, 4992,
     4828, 4670, 4517, 4369, 4225, 4087, 3953, 3823, 3698, 3577,
     3459, 3346, 3236, 3130, 3028, 2928, 2832, 2739, 2650, 2563,
     2479, 2397, 2319, 2243, 2169, 2098, 2029, 1963, 1899, 1836,
     1776, 1718, 1662, 1607, 1554, 1503, 1454, 1406, 1360, 1316,
     1273, 1231, 1191, 1152, 1114, 1077, 1042, 1008, 975, 943,
     912, 882, 853, 825, 798, 772, 747, 722, 698, 676,
     653, 632, 611, 591, 572, 553, 535, 517, 500, 484,
     468, 453, 438, 424, 410, 396, 383, 371, 359, 347,
     335, 324, 314, 304, 294, 284, 275, 266, 257, 249,
     240, 232, 225, 217, 210, 203, 197, 190, 184, 178,
     172, 167, 161, 156, 151, 146, 141, 136, 132, 128,
     123, 119, 115, 112, 108, 104, 101, 98, 95, 91,
     88, 86, 83, 80, 77, 75, 72, 70, 68, 66,
     63, 61, 59, 57, 55, 54, 52, 50, 49, 47,
     45, 44, 42, 41, 40, 38, 37, 36, 35, 34,
     33, 31, 30, 29, 28, 28, 27, 26, 25, 24,
     23, 23, 22, 21, 20, 20, 19, 18, 18, 17,
     17, 16, 16, 15, 15, 14, 14, 13, 13, 12,
     12, 12, 11, 11, 10, 10, 10, 9, 9, 9,
     9, 8, 8, 8, 8, 7, 7, 7, 7, 6,
     6
  >>

\* Math.exp(-ageMin / 30) in fixed point, linear between whole minutes
ExpNeg30(ageSec) ==
  LET m == ageSec \div 60
      s == ageSec % 60
  IN  ExpTable[m + 1] - ((ExpTable[m + 1] - ExpTable[m + 2]) * s) \div 60

\* Mutant: a score of exactly 1.6, 2.4 or 3.2 gets the lower label
labelFromScore_Inclusive(score) ==
  IF 10 * score.num <= 16 * score.den THEN "Low"
  ELSE IF 10 * score.num <= 24 * score.den THEN "Medium"
  ELSE IF 10 * score.num <= 32 * score.den THEN "High"
  ELSE "Insane"

\* A score is the fraction num / den
labelFromScore(score) ==
  IF 10 * score.num < 16 * score.den THEN "Low"
  ELSE IF 10 * score.num < 24 * score.den THEN "Medium"
  ELSE IF 10 * score.num < 32 * score.den THEN "High"
  ELSE "Insane"

labelToNumber(label) ==
  IF label = "Low" THEN 1
  ELSE IF label = "Medium" THEN 2
  ELSE IF label = "High" THEN 3
  ELSE 4

\* Math.round of the fraction num / den (den > 0): floor(x + 0.5)
MathRound(num, den) == (2 * num + den) \div (2 * den)

Abs(x) == IF x < 0 THEN 0 - x ELSE x

\* Quick consensus pass: reports aged <= 30 minutes, weight exp(-age/30)
RECURSIVE QuickSums(_, _)
QuickSums(ids, t) ==
  IF ids = {} THEN [w |-> 0, s |-> 0]
  ELSE LET i == CHOOSE x \in ids : TRUE
           rest == QuickSums(ids \ {i}, t)
           age == t - reports[i].created_at
           w == IF age <= 30 * 60 THEN ExpNeg30(age) ELSE 0
       IN  [w |-> rest.w + w, s |-> rest.s + w * reports[i].status]

\* Mutant: the consensus defaults to 3
ConsensusNum_DefaultThree(ids, t) ==
  LET q == QuickSums(ids, t)
  IN  IF ids # {} /\ q.w > 0 THEN MathRound(q.s, q.w) ELSE 3

ConsensusNum(ids, t) ==
  LET q == QuickSums(ids, t)
  IN  IF ids # {} /\ q.w > 0 THEN MathRound(q.s, q.w) ELSE 2

\* The outlier multiplier 0.25 / 1.0, as quarters
OutlierQuarters(status, consensusNum) ==
  IF Abs(status - consensusNum) >= 2 THEN 1 ELSE 4

\* Damped final pass over all reports.  Weights carry the factor 4 (it
\* cancels in the quotient), so that 0.25 loses no precision.
RECURSIVE DampedSums(_, _, _)
DampedSums(ids, t, consensusNum) ==
  IF ids = {} THEN [w |-> 0, s |-> 0]
  ELSE LET i == CHOOSE x \in ids : TRUE
           rest == DampedSums(ids \ {i}, t, consensusNum)
           age == t - reports[i].created_at
           w == ExpNeg30(age) * OutlierQuarters(reports[i].status, consensusNum)
       IN  [w |-> rest.w + w, s |-> rest.s + w * reports[i].status]

\* Mutant: the score of no reports is 3
computeDecayedScore_DefaultHigh(ids, t) ==
  LET d == DampedSums(ids, t, ConsensusNum(ids, t))
  IN  IF d.w > 0 THEN [num |-> d.s, den |-> d.w] ELSE [num |-> 3, den |-> 1]

\* computeDecayedScore over the reports with ids `ids`, at clock reading t
computeDecayedScore(ids, t) ==
  LET d == DampedSums(ids, t, ConsensusNum(ids, t))
  IN  IF d.w > 0 THEN [num |-> d.s, den |-> d.w] ELSE [num |-> 2, den |-> 1]

-----------------------------------------------------------------------------
(* alert_subscriptions: rows in insertion order, the id is the index *)

Row(v, d, th, a, c, l) ==
  [venue_id |-> v, device_id |-> d, threshold |-> th, active |-> a,
   created_at |-> c, last_triggered_at |-> l]

SameTriple(row, v, d, th) ==
  row.venue_id = v /\ row.device_id = d /\ row.threshold = th

RowsOfTriple(v, d, th) == {i \in DOMAIN subs : SameTriple(subs[i], v, d, th)}

\* The rows of the venues table, and a venue id that is not among them
KnownVenues == Venues
UnknownVenue == "v9"

\* venue_id uuid NOT NULL REFERENCES venues(id)
ForeignKeyViolation(v) == v \notin KnownVenues

\* Mutant: the insert never meets a unique constraint
UniqueViolation_None(v, d, th) == FALSE

\* The schema's CONSTRAINT unique_subscription UNIQUE(venue_id, device_id, threshold)
UniqueViolation(v, d, th) == uniqueConstraint /\ RowsOfTriple(v, d, th) # {}

\* A row is deactivated (not deleted) from outside the routes
Deactivate(id) ==
  /\ id \in DOMAIN subs
  /\ subs[id].active
  /\ subs' = [subs EXCEPT ![id].active = FALSE]
  /\ UNCHANGED <<now, subReq, runs, alerts, reports, uniqueConstraint, baselines, repReq, upserts, page, modal>>

-----------------------------------------------------------------------------
(* POST /api/alerts/subscribe *)

SubReqIds == 1 .. MaxSubReq

IdleSubReq(status) ==
  [pc |-> "idle", venue_id |-> "", device_id |-> "", threshold |-> 0,
   existing |-> 0, status |-> status]

FreeSubReq == {r \in SubReqIds : subReq[r].pc = "idle"}

\* Body parsed and validated; nothing is read or written yet
SubscribeStart(r, v, d, th) ==
  /\ FreeSubReq # {} /\ r = Min(FreeSubReq)
  /\ subReq' = [subReq EXCEPT ![r] =
        IF v = "" \/ d = "" \/ th = 0 THEN IdleSubReq(400)
        ELSE IF th \notin {1, 2} THEN IdleSubReq(400)
        ELSE [pc |-> "select", venue_id |-> v, device_id |-> d,
              threshold |-> th, existing |-> 0, status |-> 0]]
  /\ UNCHANGED <<now, subs, runs, alerts, reports, uniqueConstraint, baselines, repReq, upserts, page, modal>>

\* select id ... eq venue_id, device_id, threshold, active = true, maybeSingle
SubscribeSelect(r) ==
  /\ subReq[r].pc = "select"
  /\ LET q == subReq[r]
         found == {i \in RowsOfTriple(q.venue_id, q.device_id, q.threshold) :
                     subs[i].active}
     IN  subReq' = [subReq EXCEPT ![r] =
           IF Cardinality(found) > 1 THEN IdleSubReq(500)
           ELSE [q EXCEPT !.pc = "write",
                          !.existing = IF found = {} THEN 0
                                       ELSE CHOOSE i \in found : TRUE]]
  /\ UNCHANGED <<now, subs, runs, alerts, reports, uniqueConstraint, baselines, repReq, upserts, page, modal>>

\* Mutant: the update of the existing row also clears last_triggered_at
SubscribeWrite_ResetsTrigger(r) ==
  /\ subReq[r].pc = "write"
  /\ LET q == subReq[r]
     IN  IF q.existing # 0
         THEN /\ subs' = [subs EXCEPT ![q.existing].active = TRUE,
                                      ![q.existing].last_triggered_at = NULL]
              /\ subReq' = [subReq EXCEPT ![r] = IdleSubReq(200)]
         ELSE IF \/ ForeignKeyViolation(q.venue_id)
                 \/ UniqueViolation(q.venue_id, q.device_id, q.threshold)
         THEN /\ subs' = subs
              /\ subReq' = [subReq EXCEPT ![r] = IdleSubReq(500)]
         ELSE /\ Len(subs) < MaxRows
              /\ subs' = Append(subs, Row(q.venue_id, q.device_id, q.threshold,
                                          TRUE, now, NULL))
              /\ subReq' = [subReq EXCEPT ![r] = IdleSubReq(200)]
  /\ UNCHANGED <<now, runs, alerts, reports, uniqueConstraint, baselines, repReq, upserts, page, modal>>

\* if (existing) update active = true where id = existing.id; else insert
SubscribeWrite(r) ==
  /\ subReq[r].pc = "write"
  /\ LET q == subReq[r]
     IN  IF q.existing # 0
         THEN /\ subs' = [subs EXCEPT ![q.existing].active = TRUE]
              /\ subReq' = [subReq EXCEPT ![r] = IdleSubReq(200)]
         ELSE IF \/ ForeignKeyViolation(q.venue_id)
                 \/ UniqueViolation(q.venue_id, q.device_id, q.threshold)
         THEN /\ subs' = subs
              /\ subReq' = [subReq EXCEPT ![r] = IdleSubReq(500)]
         ELSE /\ Len(subs) < MaxRows
              /\ subs' = Append(subs, Row(q.venue_id, q.device_id, q.threshold,
                                          TRUE, now, NULL))
              /\ subReq' = [subReq EXCEPT ![r] = IdleSubReq(200)]
  /\ UNCHANGED <<now, runs, alerts, reports, uniqueConstraint, baselines, repReq, upserts, page, modal>>

-----------------------------------------------------------------------------
(* POST /api/alerts/run *)

RunIds == 1 .. MaxRuns

NoResp == [status |-> 0, processed |-> 0, triggered |-> 0]
Resp(st, p, t) == [status |-> st, processed |-> p, triggered |-> t]

\* loaded: subscriptions.length; pending: the rows the loop has not reached
IdleRun(resp) ==
  [pc |-> "idle", loaded |-> 0, pending |-> {}, reps |-> {}, now |-> 0,
   triggered |-> 0, resp |-> resp]

FreeRuns == {k \in RunIds : runs[k].pc = "idle"}

\* What the select of the active subscriptions returns for row id
Loaded(id) ==
  [id |-> id, venue_id |-> subs[id].venue_id, device_id |-> subs[id].device_id,
   threshold |-> subs[id].threshold,
   last_triggered_at |-> subs[id].last_triggered_at]

\* Mutant: the load does not filter on active
RunLoadSubs_All(k) ==
  /\ FreeRuns # {} /\ k = Min(FreeRuns)
  /\ LET act == {Loaded(id) : id \in DOMAIN subs}
     IN  runs' = [runs EXCEPT ![k] =
           IF act = {} THEN IdleRun(Resp(200, 0, 0))
           ELSE [IdleRun(NoResp) EXCEPT !.pc = "reports",
                                        !.loaded = Cardinality(act),
                                        !.pending = act]]
  /\ UNCHANGED <<now, subs, subReq, alerts, reports, uniqueConstraint, baselines, repReq, upserts, page, modal>>

\* select ... from alert_subscriptions where active = true
RunLoadSubs(k) ==
  /\ FreeRuns # {} /\ k = Min(FreeRuns)
  /\ LET act == {Loaded(id) : id \in {i \in DOMAIN subs : subs[i].active}}
     IN  runs' = [runs EXCEPT ![k] =
           IF act = {} THEN IdleRun(Resp(200, 0, 0))
           ELSE [IdleRun(NoResp) EXCEPT !.pc = "reports",
                                        !.loaded = Cardinality(act),
                                        !.pending = act]]
  /\ UNCHANGED <<now, subs, subReq, alerts, reports, uniqueConstraint, baselines, repReq, upserts, page, modal>>

\* venues, then the reports of those venues of the last 3 hours; now = Date.now()
RunLoadReports(k) ==
  /\ runs[k].pc = "reports"
  /\ LET venueIds == {s.venue_id : s \in runs[k].pending}
         since == now - 3 * 60 * 60
     IN  runs' = [runs EXCEPT ![k].pc = "loop",
                              ![k].reps = {i \in DOMAIN reports :
                                             /\ reports[i].venue_id \in venueIds
                                             /\ reports[i].created_at >= since},
                              ![k].now = now]
  /\ UNCHANGED <<now, subs, subReq, alerts, reports, uniqueConstraint, baselines, repReq, upserts, page, modal>>

\* Mutant: the boundary minute is still cooldown
InCooldown_Inclusive(sub, runNow) ==
  /\ ~IsNull(sub.last_triggered_at)
  /\ runNow - ValueOf(sub.last_triggered_at) <= 60 * 60

\* Mutant: the cooldown is not checked
InCooldown_Never(sub, runNow) == FALSE

\* if (sub.last_triggered_at) { ... if (minutesSinceTriggered < 60) continue }
InCooldown(sub, runNow) ==
  /\ ~IsNull(sub.last_triggered_at)
  /\ runNow - ValueOf(sub.last_triggered_at) < 60 * 60

\* reportsByVenue.get(sub.venue_id) ?? []
VenueReports(k, v) == {i \in runs[k].reps : reports[i].venue_id = v}

\* Mutant: the threshold of the subscription is not looked at
ShouldTrigger_AnyThreshold(threshold, labelNum) == labelNum <= 2

ShouldTrigger(threshold, labelNum) ==
  IF threshold = 2 THEN labelNum <= 2
  ELSE IF threshold = 1 THEN labelNum = 1
  ELSE FALSE

\* The label number the loop computes for sub, at the current clock reading
LabelNumOf(k, sub) ==
  labelToNumber(labelFromScore(
    computeDecayedScore(VenueReports(k, sub.venue_id), now)))

Fires(k, sub) ==
  /\ ~InCooldown(sub, runs[k].now)
  /\ ShouldTrigger(sub.threshold, LabelNumOf(k, sub))

\* The ALERT line of one subscription: when it was written, or failed to be
Alert(t, ok) == [at |-> t, delivered |-> ok]

\* The log of a subscription's alerts is kept up to MaxAlerts entries
LogAlert(id, ok) ==
  /\ Len(alerts[id]) < MaxAlerts
  /\ alerts' = [alerts EXCEPT ![id] = Append(@, Alert(now, ok))]

\* One iteration of the loop that ends in `continue`
RunSkip(k, sub) ==
  /\ runs[k].pc = "loop" /\ sub \in runs[k].pending
  /\ ~Fires(k, sub)
  /\ runs' = [runs EXCEPT ![k].pending = @ \ {sub}]
  /\ UNCHANGED <<now, subs, subReq, alerts, reports, uniqueConstraint, baselines, repReq, upserts, page, modal>>

\* One iteration that logs the alert, updates last_triggered_at, counts it
RunTrigger(k, sub) ==
  /\ runs[k].pc = "loop" /\ sub \in runs[k].pending
  /\ Fires(k, sub)
  /\ LogAlert(sub.id, TRUE)
  /\ subs' = [subs EXCEPT ![sub.id].last_triggered_at = Some(now)]
  /\ runs' = [runs EXCEPT ![k].pending = @ \ {sub}, ![k].triggered = @ + 1]
  /\ UNCHANGED <<now, subReq, reports, uniqueConstraint, baselines, repReq, upserts, page, modal>>

\* return { processed: subscriptions.length, triggered }
RunReturn(k) ==
  /\ runs[k].pc = "loop" /\ runs[k].pending = {}
  /\ runs' = [runs EXCEPT ![k] =
        IdleRun(Resp(200, runs[k].loaded, runs[k].triggered))]
  /\ UNCHANGED <<now, subs, subReq, alerts, reports, uniqueConstraint, baselines, repReq, upserts, page, modal>>

(* Failures of the collaborators inside the loop *)

\* Mutant: last_triggered_at is written before the alert is attempted
RunNotifyThrows_UpdateFirst(k, sub) ==
  /\ runs[k].pc = "loop" /\ sub \in runs[k].pending
  /\ Fires(k, sub)
  /\ LogAlert(sub.id, FALSE)
  /\ subs' = [subs EXCEPT ![sub.id].last_triggered_at = Some(now)]
  /\ runs' = [runs EXCEPT ![k] = IdleRun(Resp(500, 0, 0))]
  /\ UNCHANGED <<now, subReq, reports, uniqueConstraint, baselines, repReq, upserts, page, modal>>

\* console.log throws: the outer catch answers 500, the loop is abandoned
RunNotifyThrows(k, sub) ==
  /\ runs[k].pc = "loop" /\ sub \in runs[k].pending
  /\ Fires(k, sub)
  /\ LogAlert(sub.id, FALSE)
  /\ runs' = [runs EXCEPT ![k] = IdleRun(Resp(500, 0, 0))]
  /\ UNCHANGED <<now, subs, subReq, reports, uniqueConstraint, baselines, repReq, upserts, page, modal>>

\* The update returns { error }: the result is not looked at
RunUpdateFails(k, sub) ==
  /\ runs[k].pc = "loop" /\ sub \in runs[k].pending
  /\ Fires(k, sub)
  /\ LogAlert(sub.id, TRUE)
  /\ runs' = [runs EXCEPT ![k].pending = @ \ {sub}, ![k].triggered = @ + 1]
  /\ UNCHANGED <<now, subs, subReq, reports, uniqueConstraint, baselines, repReq, upserts, page, modal>>

\* The update rejects (throws) after the alert was logged
RunUpdateThrows(k, sub) ==
  /\ runs[k].pc = "loop" /\ sub \in runs[k].pending
  /\ Fires(k, sub)
  /\ LogAlert(sub.id, TRUE)
  /\ runs' = [runs EXCEPT ![k] = IdleRun(Resp(500, 0, 0))]
  /\ UNCHANGED <<now, subs, subReq, reports, uniqueConstraint, baselines, repReq, upserts, page, modal>>

-----------------------------------------------------------------------------
(* POST /api/report *)

Report(v, d, st, c) ==
  [venue_id |-> v, device_id |-> d, status |-> st, created_at |-> c]

RepReqIds == 1 .. MaxRepReq

RepResp(st, w) == [status |-> st, wait |-> w]

IdleRepReq(resp) ==
  [pc |-> "idle", venue_id |-> "", device_id |-> "", status |-> 0,
   dow |-> 0, hour |-> 0, prevMean |-> <<2, 1>>, prevN |-> 0, resp |-> resp]

FreeRepReq == {r \in RepReqIds : repReq[r].pc = "idle"}

Max(S) == CHOOSE x \in S : \A y \in S : x >= y

RECURSIVE GCD(_, _)
GCD(a, b) == IF b = 0 THEN a ELSE GCD(b, a % b)

\* A mean_score value as a reduced fraction <<num, den>>
Fraction(num, den) == << num \div GCD(num, den), den \div GCD(num, den) >>

MathCeil(num, den) == 0 - ((0 - num) \div den)

\* Minutes between two instants, as a fraction of seconds over 60
minutesBetween(a, b) == [num |-> Abs(a - b), den |-> 60]

\* Day of week and hour of the instant; instant 0 is a Sunday midnight
getDowHourDetroit(t) ==
  [dow |-> (t \div (24 * 60 * 60)) % 7, hour |-> (t % (24 * 60 * 60)) \div (60 * 60)]

\* setHours(0, 0, 0, 0): the midnight that starts the instant's day
startOfDay(t) == t - (t % (24 * 60 * 60))

\* Body parsed and validated; nothing is read or written yet
ReportStart(r, v, d, st) ==
  /\ FreeRepReq # {} /\ r = Min(FreeRepReq)
  /\ repReq' = [repReq EXCEPT ![r] =
        IF v = "" \/ st = 0 \/ d = "" THEN IdleRepReq(RepResp(400, 0))
        ELSE IF st \notin {1, 2, 3, 4} THEN IdleRepReq(RepResp(400, 0))
        ELSE [IdleRepReq(RepResp(0, 0)) EXCEPT !.pc = "guardA", !.venue_id = v,
                                               !.device_id = d, !.status = st]]
  /\ UNCHANGED <<now, subs, subReq, runs, alerts, reports, uniqueConstraint,
                 baselines, upserts, page, modal>>

\* The device's reports of the venue, newest first, limit 1
LastReport(v, d) ==
  LET mine == {i \in DOMAIN reports :
                 reports[i].venue_id = v /\ reports[i].device_id = d}
  IN  IF mine = {} THEN NULL
      ELSE Some(Max({reports[i].created_at : i \in mine}))

\* Mutant: a report exactly 10 minutes old still blocks
ReportGuardA_Inclusive(r) ==
  /\ repReq[r].pc = "guardA"
  /\ LET q == repReq[r]
         last == LastReport(q.venue_id, q.device_id)
         ageMin == minutesBetween(now, ValueOf(last))
     IN  repReq' = [repReq EXCEPT ![r] =
           IF ~IsNull(last) /\ ageMin.num <= 10 * ageMin.den
           THEN IdleRepReq(RepResp(429,
                  Max({1, MathCeil(10 * ageMin.den - ageMin.num, ageMin.den)})))
           ELSE [q EXCEPT !.pc = "guardB"]]
  /\ UNCHANGED <<now, subs, subReq, runs, alerts, reports, uniqueConstraint,
                 baselines, upserts, page, modal>>

ReportGuardA_Never(r) ==
  /\ repReq[r].pc = "guardA"
  /\ repReq' = [repReq EXCEPT ![r].pc = "guardB"]
  /\ UNCHANGED <<now, subs, subReq, runs, alerts, reports, uniqueConstraint,
                 baselines, upserts, page, modal>>

\* Guardrail A: 1 report per venue per device per 10 minutes
ReportGuardA(r) ==
  /\ repReq[r].pc = "guardA"
  /\ LET q == repReq[r]
         last == LastReport(q.venue_id, q.device_id)
         ageMin == minutesBetween(now, ValueOf(last))
     IN  repReq' = [repReq EXCEPT ![r] =
           IF ~IsNull(last) /\ ageMin.num < 10 * ageMin.den
           THEN IdleRepReq(RepResp(429,
                  Max({1, MathCeil(10 * ageMin.den - ageMin.num, ageMin.den)})))
           ELSE [q EXCEPT !.pc = "guardB"]]
  /\ UNCHANGED <<now, subs, subReq, runs, alerts, reports, uniqueConstraint,
                 baselines, upserts, page, modal>>

\* count of the device's reports with created_at >= startOfDay
CountToday(d, t) ==
  Cardinality({i \in DOMAIN reports :
                 reports[i].device_id = d /\ reports[i].created_at >= startOfDay(t)})

\* Mutant: the report is stored before the cap is looked at
ReportGuardB_InsertFirst(r) ==
  /\ repReq[r].pc = "guardB"
  /\ reports' = Append(reports, Report(repReq[r].venue_id, repReq[r].device_id,
                                       repReq[r].status, now))
  /\ repReq' = [repReq EXCEPT ![r] =
        IF CountToday(repReq[r].device_id, now) >= 20
        THEN IdleRepReq(RepResp(429, 0))
        ELSE [repReq[r] EXCEPT !.pc = "baseline"]]
  /\ UNCHANGED <<now, subs, subReq, runs, alerts, uniqueConstraint,
                 baselines, upserts, page, modal>>

\* Mutant: the cap rejects only above 20
ReportGuardB_Above(r) ==
  /\ repReq[r].pc = "guardB"
  /\ repReq' = [repReq EXCEPT ![r] =
        IF CountToday(repReq[r].device_id, now) > 20
        THEN IdleRepReq(RepResp(429, 0))
        ELSE [repReq[r] EXCEPT !.pc = "insert"]]
  /\ UNCHANGED <<now, subs, subReq, runs, alerts, reports, uniqueConstraint,
                 baselines, upserts, page, modal>>

\* Guardrail B: daily cap per device
ReportGuardB(r) ==
  /\ repReq[r].pc = "guardB"
  /\ repReq' = [repReq EXCEPT ![r] =
        IF CountToday(repReq[r].device_id, now) >= 20
        THEN IdleRepReq(RepResp(429, 0))
        ELSE [repReq[r] EXCEPT !.pc = "insert"]]
  /\ UNCHANGED <<now, subs, subReq, runs, alerts, reports, uniqueConstraint,
                 baselines, upserts, page, modal>>

\* 1) Insert the report; created_at is the time of the insert
ReportInsert(r) ==
  /\ repReq[r].pc = "insert"
  /\ reports' = Append(reports, Report(repReq[r].venue_id, repReq[r].device_id,
                                       repReq[r].status, now))
  /\ repReq' = [repReq EXCEPT ![r].pc = "baseline"]
  /\ UNCHANGED <<now, subs, subReq, runs, alerts, uniqueConstraint,
                 baselines, upserts, page, modal>>

Bucket(v, dow, hour) ==
  {b \in baselines : b.venue_id = v /\ b.dow = dow /\ b.hour = hour}

\* 2) Read the baseline bucket of this venue and (dow, hour); seed 2.0, 0
ReportReadBaseline(r) ==
  /\ repReq[r].pc = "baseline"
  /\ LET q == repReq[r]
         dh == getDowHourDetroit(now)
         found == Bucket(q.venue_id, dh.dow, dh.hour)
         baseline == CHOOSE b \in found : TRUE
     IN  repReq' = [repReq EXCEPT ![r] =
           [q EXCEPT !.pc = "upsert", !.dow = dh.dow, !.hour = dh.hour,
                     !.prevMean = IF found = {} THEN <<2, 1>> ELSE baseline.mean_score,
                     !.prevN = IF found = {} THEN 0 ELSE baseline.n]]
  /\ UNCHANGED <<now, subs, subReq, runs, alerts, reports, uniqueConstraint,
                 baselines, upserts, page, modal>>

\* Mutant: the seed 2.0 counts as a first sample
Upserted_SeedCounts(bl, v, dow, hour, prevMean, prevN, s) ==
  LET seen == {b \in bl : b.venue_id = v /\ b.dow = dow /\ b.hour = hour} # {}
      nextN == prevN + 1
      nextMean == IF seen
                  THEN Fraction(prevMean[1] * prevN + s * prevMean[2], prevMean[2] * nextN)
                  ELSE Fraction(2 + s, 2)
  IN  {b \in bl : ~(b.venue_id = v /\ b.dow = dow /\ b.hour = hour)}
        \cup {[venue_id |-> v, dow |-> dow, hour |-> hour,
               mean_score |-> nextMean, n |-> nextN]}

\* nextMean = (prevMean * prevN + s) / nextN, written on conflict venue_id,dow,hour
Upserted(bl, v, dow, hour, prevMean, prevN, s) ==
  LET nextN == prevN + 1
      nextMean == Fraction(prevMean[1] * prevN + s * prevMean[2], prevMean[2] * nextN)
  IN  {b \in bl : ~(b.venue_id = v /\ b.dow = dow /\ b.hour = hour)}
        \cup {[venue_id |-> v, dow |-> dow, hour |-> hour,
               mean_score |-> nextMean, n |-> nextN]}

\* History of the bucket updates: per bucket, the statuses applied so far as
\* their sum and their number
Applied(up, v, dow, hour, s) ==
  LET found == {u \in up : u.venue_id = v /\ u.dow = dow /\ u.hour = hour}
      prev == IF found = {} THEN [sum |-> 0, n |-> 0] ELSE CHOOSE u \in found : TRUE
  IN  (up \ found) \cup {[venue_id |-> v, dow |-> dow, hour |-> hour,
                          sum |-> prev.sum + s, n |-> prev.n + 1]}

ReportUpsert(r) ==
  /\ repReq[r].pc = "upsert"
  /\ LET q == repReq[r]
     IN  /\ baselines' = Upserted(baselines, q.venue_id, q.dow, q.hour,
                                  q.prevMean, q.prevN, q.status)
         /\ upserts' = Applied(upserts, q.venue_id, q.dow, q.hour, q.status)
  /\ repReq' = [repReq EXCEPT ![r] = IdleRepReq(RepResp(200, 0))]
  /\ UNCHANGED <<now, subs, subReq, runs, alerts, reports, uniqueConstraint, page, modal>>

(* Storage errors of the report route *)

\* The insert returns { error }: 500, nothing stored
ReportInsertFails(r) ==
  /\ repReq[r].pc = "insert"
  /\ repReq' = [repReq EXCEPT ![r] = IdleRepReq(RepResp(500, 0))]
  /\ UNCHANGED <<now, subs, subReq, runs, alerts, reports, uniqueConstraint,
                 baselines, upserts, page, modal>>

\* The baseline select returns { error }: 500, after the report was inserted
ReportReadBaselineFails(r) ==
  /\ repReq[r].pc = "baseline"
  /\ repReq' = [repReq EXCEPT ![r] = IdleRepReq(RepResp(500, 0))]
  /\ UNCHANGED <<now, subs, subReq, runs, alerts, reports, uniqueConstraint,
                 baselines, upserts, page, modal>>

\* Mutant: a failed upsert takes the inserted report back
ReportUpsertFails_Rollback(r) ==
  /\ repReq[r].pc = "upsert"
  /\ reports' = SubSeq(reports, 1, Len(reports) - 1)
  /\ repReq' = [repReq EXCEPT ![r] = IdleRepReq(RepResp(500, 0))]
  /\ UNCHANGED <<now, subs, subReq, runs, alerts, uniqueConstraint,
                 baselines, upserts, page, modal>>

\* The upsert returns { error }: 500, after the report was inserted
ReportUpsertFails(r) ==
  /\ repReq[r].pc = "upsert"
  /\ repReq' = [repReq EXCEPT ![r] = IdleRepReq(RepResp(500, 0))]
  /\ UNCHANGED <<now, subs, subReq, runs, alerts, reports, uniqueConstraint,
                 baselines, upserts, page, modal>>

-----------------------------------------------------------------------------
(* The venue page: score, label and the prediction row *)

\* computeDecayedScore of the venue page: the same text as the copy of the
\* alert run, with now = Date.now() read inside.  Math.exp(-ageMin / 30) is
\* exactly 0 from 746 * 30 minutes on (underflow).
Underflow == 746 * 30 * 60

\* labelFromScore of the venue page
labelFromScorePage(score) ==
  IF 10 * score.num < 16 * score.den THEN "Low"
  ELSE IF 10 * score.num < 24 * score.den THEN "Medium"
  ELSE IF 10 * score.num < 32 * score.den THEN "High"
  ELSE "Insane"

\* labelFromScore of the home page
labelFromScoreHome(score) ==
  IF 10 * score.num < 16 * score.den THEN "Low"
  ELSE IF 10 * score.num < 24 * score.den THEN "Medium"
  ELSE IF 10 * score.num < 32 * score.den THEN "High"
  ELSE "Insane"

\* Mutant: the final pass, like the quick pass, weighs only reports aged <= 30
PageWeight_RecentOnly(i, consensusNum) ==
  LET age == now - reports[i].created_at
  IN  IF age > 30 * 60 THEN 0
      ELSE ExpNeg30(age) * OutlierQuarters(reports[i].status, consensusNum)

\* w = baseWeight * outlierMultiplier of report i, in quarters
PageWeight(i, consensusNum) ==
  LET age == now - reports[i].created_at
  IN  IF age >= Underflow THEN 0
      ELSE ExpNeg30(age) * OutlierQuarters(reports[i].status, consensusNum)

RECURSIVE PageSums(_, _)
PageSums(ids, consensusNum) ==
  IF ids = {} THEN [w |-> 0, s |-> 0]
  ELSE LET i == CHOOSE x \in ids : TRUE
           rest == PageSums(ids \ {i}, consensusNum)
           w == PageWeight(i, consensusNum)
       IN  [w |-> rest.w + w, s |-> rest.s + w * reports[i].status]

\* Mutant: the scorer answers the quick consensus
computeDecayedScorePage_Consensus(ids) ==
  [num |-> ConsensusNum(ids, now), den |-> 1]

\* Mutant: the default of the scorer is 0
computeDecayedScorePage_DefaultZero(ids) ==
  LET d == PageSums(ids, ConsensusNum(ids, now))
  IN  IF d.w > 0 THEN [num |-> d.s, den |-> d.w] ELSE [num |-> 0, den |-> 1]

computeDecayedScorePage(ids) ==
  LET d == PageSums(ids, ConsensusNum(ids, now))
  IN  IF d.w > 0 THEN [num |-> d.s, den |-> d.w] ELSE [num |-> 2, den |-> 1]

\* a / b < e / f for fractions with b, f > 0 and a, e >= 0, compared by whole
\* parts and then by the reciprocals of the remainders (no products)
RECURSIVE FracLess(_, _, _, _)
FracLess(a, b, e, f) ==
  IF a \div b # e \div f THEN a \div b < e \div f
  ELSE IF e % f = 0 THEN FALSE
  ELSE IF a % b = 0 THEN TRUE
  ELSE FracLess(f, e % f, b, a % b)

\* x - y >= 0.25 for two scores
QuarterAbove(x, y) == ~FracLess(x.num, x.den, 4 * y.num + y.den, 4 * y.den)

\* reports aged <= 30 minutes
currentWindow(ids) == {i \in ids : now - reports[i].created_at <= 30 * 60}

\* reports aged > 30 and <= 90 minutes
previousWindow(ids) ==
  {i \in ids : /\ now - reports[i].created_at > 30 * 60
               /\ now - reports[i].created_at <= 90 * 60}

\* Mutant: the previous window has no upper end
computeTrend_OpenWindow(ids) ==
  LET previous == {i \in ids : now - reports[i].created_at > 30 * 60}
  IN  IF Cardinality(currentWindow(ids)) < 2 \/ Cardinality(previous) < 2
      THEN "unknown"
      ELSE LET currentScore == computeDecayedScorePage(currentWindow(ids))
               previousScore == computeDecayedScorePage(previous)
           IN  IF QuarterAbove(currentScore, previousScore) THEN "up"
               ELSE IF QuarterAbove(previousScore, currentScore) THEN "down"
               ELSE "flat"

computeTrend(ids) ==
  IF \/ Cardinality(currentWindow(ids)) < 2
     \/ Cardinality(previousWindow(ids)) < 2
  THEN "unknown"
  ELSE LET currentScore == computeDecayedScorePage(currentWindow(ids))
           previousScore == computeDecayedScorePage(previousWindow(ids))
       IN  IF QuarterAbove(currentScore, previousScore) THEN "up"
           ELSE IF QuarterAbove(previousScore, currentScore) THEN "down"
           ELSE "flat"

\* Mutant: the baseline is not blended in
predictLabel_CurrentOnly(currentScore, baselineScore) ==
  labelFromScorePage(currentScore)

\* labelFromScore(blended), blended = 0.55 * baselineScore + 0.45 * currentScore,
\* or currentScore when there is no baseline.  With the baseline b1 / b2 and
\* the score sn / sd, blended = num / (20 * unit); the bounds 1.6, 2.4 and 3.2
\* of labelFromScore are compared after multiplying by 20 * unit
predictLabel(currentScore, baselineScore) ==
  IF IsNull(baselineScore) THEN labelFromScorePage(currentScore)
  ELSE LET b == ValueOf(baselineScore)
           num == 11 * b[1] * currentScore.den + 9 * currentScore.num * b[2]
           unit == b[2] * currentScore.den
       IN  IF num < 32 * unit THEN "Low"
           ELSE IF num < 48 * unit THEN "Medium"
           ELSE IF num < 64 * unit THEN "High"
           ELSE "Insane"

horizons == <<30, 60, 90>>

\* Mutant: the age is not rounded to whole minutes
confidenceFrom_Exact(latestCreatedAt, reportCount) ==
  IF IsNull(latestCreatedAt) THEN "Low"
  ELSE LET age == Max({0, now - ValueOf(latestCreatedAt)})
       IN  IF age <= 10 * 60 /\ reportCount >= 3 THEN "High"
           ELSE IF age <= 25 * 60 /\ reportCount >= 2 THEN "Medium"
           ELSE "Low"

\* ageMin = Math.max(0, Math.round((Date.now() - latest) / 60000))
confidenceFrom(latestCreatedAt, reportCount) ==
  IF IsNull(latestCreatedAt) THEN "Low"
  ELSE LET ageMin == Max({0, MathRound(now - ValueOf(latestCreatedAt), 60)})
       IN  IF ageMin <= 10 /\ reportCount >= 3 THEN "High"
           ELSE IF ageMin <= 25 /\ reportCount >= 2 THEN "Medium"
           ELSE "Low"

\* reports?.[0]?.created_at ?? null, the rows ordered by created_at descending
LatestCreatedAt(ids) ==
  IF ids = {} THEN NULL
  ELSE Some(CHOOSE t \in {reports[i].created_at : i \in ids} :
              \A i \in ids : reports[i].created_at <= t)

\* The page's position, what it has computed (at: Date.now() of the score) and
\* what it shows
IdlePage ==
  [pc |-> "idle", venue_id |-> "", ids |-> {}, score |-> [num |-> 2, den |-> 1],
   label |-> "", baseErr |-> FALSE, predictions |-> NULL, error |-> "", at |-> 0,
   confidence |-> "", trend |-> ""]

\* 2) reports of the venue of the last 3 hours; 3) score and label
PageLoadReports(v) ==
  /\ page.pc \in {"idle", "done"}
  /\ LET ids == {i \in DOMAIN reports :
                   reports[i].venue_id = v /\ reports[i].created_at >= now - 3 * 60 * 60}
         score == computeDecayedScorePage(ids)
     IN  page' = [IdlePage EXCEPT !.pc = "baselines", !.venue_id = v, !.ids = ids,
                                  !.at = now, !.trend = computeTrend(ids),
                                  !.confidence =
                                     confidenceFrom(LatestCreatedAt(ids),
                                                    Cardinality(ids)),
                                  !.score = score, !.label = labelFromScorePage(score)]
  /\ UNCHANGED <<now, subs, subReq, runs, alerts, reports, uniqueConstraint,
                 baselines, repReq, upserts, modal>>

\* the reports query fails: the page shows the error and nothing else
PageReportsFail(v) ==
  /\ page.pc \in {"idle", "done"}
  /\ page' = [IdlePage EXCEPT !.pc = "done", !.venue_id = v,
                              !.error = "Error loading reports"]
  /\ UNCHANGED <<now, subs, subReq, runs, alerts, reports, uniqueConstraint,
                 baselines, repReq, upserts, modal>>

\* The mean_score of the first loaded bucket with this dow and hour, or null
BaselineOf(rows, dow, hour) ==
  LET found == {b \in rows : b.dow = dow /\ b.hour = hour}
  IN  IF found = {} THEN NULL ELSE Some((CHOOSE b \in found : TRUE).mean_score)

\* 4) prediction row: the buckets of now + 30, 60, 90 minutes, the baselines
\* of their dows and hours, one prediction for each horizon
PageRender ==
  /\ page.pc = "baselines"
  /\ LET bucket(h) == getDowHourDetroit(now + horizons[h] * 60)
         dows == {bucket(h).dow : h \in 1 .. 3}
         hours == {bucket(h).hour : h \in 1 .. 3}
         rows == {b \in baselines :
                    b.venue_id = page.venue_id /\ b.dow \in dows /\ b.hour \in hours}
     IN  page' = [page EXCEPT
           !.pc = "done",
           !.predictions = Some([h \in 1 .. 3 |->
              [minutes |-> horizons[h],
               label |-> predictLabel(page.score,
                           BaselineOf(rows, bucket(h).dow, bucket(h).hour))]])]
  /\ UNCHANGED <<now, subs, subReq, runs, alerts, reports, uniqueConstraint,
                 baselines, repReq, upserts, modal>>

\* the baselines query returns an error: predictions = null, and the section
\* of the predictions is not rendered
PageRenderBaseErr ==
  /\ page.pc = "baselines"
  /\ page' = [page EXCEPT !.pc = "done", !.baseErr = TRUE, !.predictions = NULL]
  /\ UNCHANGED <<now, subs, subReq, runs, alerts, reports, uniqueConstraint,
                 baselines, repReq, upserts, modal>>

-----------------------------------------------------------------------------
(* VenueClient and its ReportModal: the client state of the report dialog *)

CrowdStatuses == {"Low", "Medium", "High", "Insane"}

\* useState of VenueClient (open, showConfirmation) and of ReportModal
\* (status, lineOutside, busy, err) after mounting; isSticky is a prop.
\* pending: onSubmit is awaited; sent: the fetches sent so far; succeeded:
\* a submission of this mount succeeded
ClosedModal(isSticky) ==
  [isSticky |-> isSticky, open |-> FALSE, showConfirmation |-> FALSE,
   status |-> "Medium", lineOutside |-> FALSE, busy |-> FALSE, err |-> FALSE,
   pending |-> FALSE, succeeded |-> FALSE, sent |-> 0]

ModalFrame ==
  UNCHANGED <<now, subs, subReq, runs, alerts, reports, uniqueConstraint,
              baselines, repReq, upserts, page>>

\* "Report Line Status": the button is replaced by the confirmation while
\* showConfirmation holds, unless the client is the sticky one
OpenModal ==
  /\ modal.isSticky \/ ~modal.showConfirmation
  /\ ~modal.open
  /\ modal' = [modal EXCEPT !.open = TRUE]
  /\ ModalFrame

\* A click on the backdrop: onClose
ClickBackdrop ==
  /\ modal.open
  /\ modal' = [modal EXCEPT !.open = FALSE]
  /\ ModalFrame

\* Cancel: onClose, disabled while busy
ClickCancel ==
  /\ modal.open /\ ~modal.busy
  /\ modal' = [modal EXCEPT !.open = FALSE]
  /\ ModalFrame

\* One of the status options, disabled while busy
ClickOption(opt) ==
  /\ modal.open /\ ~modal.busy
  /\ modal.status # opt
  /\ modal' = [modal EXCEPT !.status = opt]
  /\ ModalFrame

\* The checkbox "Line outside?", disabled while busy
ToggleLineOutside ==
  /\ modal.open /\ ~modal.busy
  /\ modal' = [modal EXCEPT !.lineOutside = ~@]
  /\ ModalFrame

\* Submit, disabled while busy: setBusy(true), setErr(null), await onSubmit
ClickSubmit ==
  /\ modal.open /\ ~modal.busy
  /\ modal.sent < MaxSubmits
  /\ modal' = [modal EXCEPT !.busy = TRUE, !.err = FALSE, !.pending = TRUE,
                            !.sent = @ + 1]
  /\ ModalFrame

\* Mutant: busy is reset after a successful submission as well
SubmitResolves_ResetsBusy ==
  /\ modal.pending
  /\ modal' = [modal EXCEPT !.pending = FALSE, !.open = FALSE, !.busy = FALSE,
                            !.showConfirmation = TRUE, !.succeeded = TRUE]
  /\ ModalFrame

\* res.ok: setOpen(false), setShowConfirmation(true), router.refresh()
SubmitResolves ==
  /\ modal.pending
  /\ modal' = [modal EXCEPT !.pending = FALSE, !.open = FALSE,
                            !.showConfirmation = TRUE, !.succeeded = TRUE]
  /\ ModalFrame

\* onSubmit throws: setErr(message), setBusy(false)
SubmitThrows ==
  /\ modal.pending
  /\ modal' = [modal EXCEPT !.pending = FALSE, !.err = TRUE, !.busy = FALSE]
  /\ ModalFrame

\* setTimeout(() => setShowConfirmation(false), 5000)
ConfirmationExpires ==
  /\ modal.showConfirmation /\ ~modal.pending
  /\ modal' = [modal EXCEPT !.showConfirmation = FALSE]
  /\ ModalFrame

\* The page is loaded again: the components are mounted anew
ReloadPage ==
  /\ modal # [ClosedModal(modal.isSticky) EXCEPT !.sent = modal.sent]
  /\ modal' = [ClosedModal(modal.isSticky) EXCEPT !.sent = modal.sent]
  /\ ModalFrame

-----------------------------------------------------------------------------
(* Initial stores and the specifications *)

\* Report stores a run may find at clock reading 0
AlertInitReports ==
  { <<>>,
    << Report("v1", "d1", 1, 0 - 5 * 60), Report("v2", "d2", 3, 0 - 5 * 60) >>,
    << Report("v1", "d1", 4, 0 - 60), Report("v1", "d2", 4, 0 - 120),
       Report("v2", "d1", 2, 0 - 10 * 60) >>,
    << Report("v1", "d1", 1, 0 - 170 * 60), Report("v1", "d2", 4, 0 - 175 * 60) >>,
    << Report("v1", "d1", 3, 0 - 60), Report("v2", "d2", 1, 0 - 150 * 60) >> }

\* Subscription stores a run may find: none, or three never-triggered rows
AlertInitSubs ==
  { <<>>,
    << Row("v1", "d1", 2, TRUE, 0, NULL), Row("v1", "d1", 1, TRUE, 0, NULL),
       Row("v2", "d1", 2, TRUE, 0, NULL) >> }

\* Subscription stores a subscribe call may find: none, or one triggered row
SubscribeInitSubs ==
  { <<>>, << Row("v1", "d1", 2, TRUE, 0, Some(0)) >> }

InitCommon ==
  /\ subReq = [r \in SubReqIds |-> IdleSubReq(0)]
  /\ runs = [k \in RunIds |-> IdleRun(NoResp)]
  /\ alerts = [i \in 1 .. MaxRows |-> <<>>]
  /\ repReq = [r \in RepReqIds |-> IdleRepReq(RepResp(0, 0))]
  /\ page = IdlePage
  /\ modal = ClosedModal(FALSE)

InitAlerts ==
  /\ InitCommon
  /\ now = 0
  /\ baselines = {} /\ upserts = {}
  /\ subs \in AlertInitSubs
  /\ reports \in AlertInitReports
  /\ uniqueConstraint = TRUE

\* Overlapping runs: one subscription; its venue has no reports, or is High
InitAlertsConc ==
  /\ InitCommon
  /\ now = 0
  /\ baselines = {} /\ upserts = {}
  /\ subs = << Row("v1", "d1", 2, TRUE, 0, NULL) >>
  /\ reports \in { <<>>, << Report("v1", "d1", 3, 0 - 5 * 60) >> }
  /\ uniqueConstraint = TRUE

\* Failing collaborators: two subscriptions of one venue without reports
InitAlertsFaults ==
  /\ InitCommon
  /\ now = 0
  /\ baselines = {} /\ upserts = {}
  /\ subs = << Row("v1", "d1", 2, TRUE, 0, NULL), Row("v1", "d1", 1, TRUE, 0, NULL) >>
  /\ reports = <<>>
  /\ uniqueConstraint = TRUE

InitSubscribe ==
  /\ InitCommon
  /\ now = 0
  /\ baselines = {} /\ upserts = {}
  /\ subs \in SubscribeInitSubs
  /\ reports = <<>>
  /\ uniqueConstraint = TRUE

InitSubscribeAnySchema ==
  /\ InitCommon
  /\ now = 0
  /\ baselines = {} /\ upserts = {}
  /\ subs \in SubscribeInitSubs
  /\ reports = <<>>
  /\ uniqueConstraint \in BOOLEAN

\* Values of the status field a report request may carry (0: missing, 5: invalid)
ReportStatuses == {0, 1, 4, 5}

\* Values of the status field in the one-at-a-time specification
SerialStatuses == {0, 3, 5}

\* Earlier reports of today: device d1 every 10 minutes, venues alternating,
\* and a report of device d2 for v1 a minute ago
History(n) ==
  [k \in 1 .. n |-> Report(IF k % 2 = 1 THEN "v1" ELSE "v2", "d1", 2, k * 600)]
    \o << Report("v1", "d2", 3, 20 * 600 - 60) >>

\* The bucket updates of a report store, one per report at its own instant
RECURSIVE UpsertsOf(_)
UpsertsOf(reps) ==
  IF reps = <<>> THEN {}
  ELSE LET e == reps[Len(reps)]
           dh == getDowHourDetroit(e.created_at)
       IN  Applied(UpsertsOf(SubSeq(reps, 1, Len(reps) - 1)),
                   e.venue_id, dh.dow, dh.hour, e.status)

\* The baseline buckets after those updates were applied one at a time
RECURSIVE BaselinesOf(_)
BaselinesOf(reps) ==
  IF reps = <<>> THEN {}
  ELSE LET e == reps[Len(reps)]
           dh == getDowHourDetroit(e.created_at)
           bl == BaselinesOf(SubSeq(reps, 1, Len(reps) - 1))
           found == {b \in bl : b.venue_id = e.venue_id /\ b.dow = dh.dow
                                                       /\ b.hour = dh.hour}
           baseline == CHOOSE b \in found : TRUE
       IN  Upserted(bl, e.venue_id, dh.dow, dh.hour,
                    IF found = {} THEN <<2, 1>> ELSE baseline.mean_score,
                    IF found = {} THEN 0 ELSE baseline.n, e.status)

\* Reports handled one at a time: the store holds the history, or nothing
InitReports ==
  /\ InitCommon
  /\ now = 20 * 600
  /\ subs = <<>>
  /\ uniqueConstraint = TRUE
  /\ reports \in {History(MaxHistory), <<>>}
  /\ upserts = UpsertsOf(reports)
  /\ baselines = BaselinesOf(reports)

\* Concurrent reports into empty stores
InitReportsConc ==
  /\ InitCommon
  /\ now = 0
  /\ subs = <<>>
  /\ uniqueConstraint = TRUE
  /\ reports = <<>>
  /\ upserts = {}
  /\ baselines = {}

\* A report is handled only when no other report is in flight
ReportStartSerial(r, v, d, st) == FreeRepReq = RepReqIds /\ ReportStart(r, v, d, st)

NextReportSteps ==
  \/ \E r \in RepReqIds : ReportGuardA(r)
  \/ \E r \in RepReqIds : ReportGuardB(r)
  \/ \E r \in RepReqIds : ReportInsert(r)
  \/ \E r \in RepReqIds : ReportReadBaseline(r)
  \/ \E r \in RepReqIds : ReportUpsert(r)

NextReports ==
  \/ \E r \in RepReqIds, v \in Venues \cup {""}, d \in {"d1", ""},
        st \in SerialStatuses : ReportStartSerial(r, v, d, st)
  \/ NextReportSteps
  \/ Tick(ReportInstants)

NextReportsConc ==
  \/ \E r \in RepReqIds, v \in {"v1", ""}, d \in {"d1", ""},
        st \in ReportStatuses : ReportStart(r, v, d, st)
  \/ NextReportSteps
  \/ Tick(BucketInstants)

\* A run starts only when no other run is in flight
RunLoadSubsSerial(k) == FreeRuns = RunIds /\ RunLoadSubs(k)

NextAlertsEnv ==
  \/ Tick(AlertInstants)
  \/ \E id \in 1 .. MaxRows : Deactivate(id)

NextRunLoop ==
  \/ \E k \in RunIds : RunLoadReports(k)
  \/ \E k \in RunIds : \E sub \in runs[k].pending : RunSkip(k, sub)
  \/ \E k \in RunIds : \E sub \in runs[k].pending : RunTrigger(k, sub)
  \/ \E k \in RunIds : RunReturn(k)

NextRunFaults ==
  \/ \E k \in RunIds : \E sub \in runs[k].pending : RunNotifyThrows(k, sub)
  \/ \E k \in RunIds : \E sub \in runs[k].pending : RunUpdateFails(k, sub)
  \/ \E k \in RunIds : \E sub \in runs[k].pending : RunUpdateThrows(k, sub)

NextAlerts ==
  \/ \E k \in RunIds : RunLoadSubsSerial(k)
  \/ NextRunLoop
  \/ NextAlertsEnv

NextAlertsConc ==
  \/ \E k \in RunIds : RunLoadSubs(k)
  \/ NextRunLoop
  \/ Tick(ShortInstants)

NextAlertsFaults ==
  \/ \E k \in RunIds : RunLoadSubsSerial(k)
  \/ NextRunLoop
  \/ NextRunFaults
  \/ Tick(FaultInstants)

NextSubscribe ==
  \/ \E r \in SubReqIds, v \in SubscribeVenues \cup {""},
        d \in SubscribeDevices \cup {""}, th \in 0 .. 3 : SubscribeStart(r, v, d, th)
  \/ \E r \in SubReqIds : SubscribeSelect(r)
  \/ \E r \in SubReqIds : SubscribeWrite(r)
  \/ \E id \in 1 .. MaxRows : Deactivate(id)

\* A device submits while it has no report stored and none in flight
ReportStartOnce(r, v, d, st) ==
  /\ \A q \in RepReqIds : repReq[q].pc # "idle" => repReq[q].device_id # d
  /\ \A i \in DOMAIN reports : reports[i].device_id # d
  /\ ReportStart(r, v, d, st)

\* Reports of three devices for one venue within one clock reading
NextReportsRace ==
  \/ \E r \in RepReqIds, v \in {"v1", ""}, d \in RaceDevices \cup {""},
        st \in ReportStatuses : ReportStartOnce(r, v, d, st)
  \/ NextReportSteps

SoftInstants == {0, 9 * 60, 10 * 60, 19 * 60}

\* Interleaved submissions of one device for one venue
NextReportsSoft ==
  \/ \E r \in RepReqIds, st \in {0, 3} : ReportStart(r, "v1", "d1", st)
  \/ NextReportSteps
  \/ Tick(SoftInstants)

\* Submissions of one device for one venue, one at a time, with a storage
\* that may refuse a call
NextReportsFaults ==
  \/ \E r \in RepReqIds, st \in {0, 3} : ReportStartSerial(r, "v1", "d1", st)
  \/ NextReportSteps
  \/ \E r \in RepReqIds : ReportInsertFails(r)
  \/ \E r \in RepReqIds : ReportReadBaselineFails(r)
  \/ \E r \in RepReqIds : ReportUpsertFails(r)
  \/ Tick(SoftInstants)

\* Subscribe calls that may name a venue the venues table does not hold
NextSubscribeInputs ==
  \/ \E r \in SubReqIds, v \in SubscribeVenues \cup {UnknownVenue, ""},
        d \in SubscribeDevices \cup {""}, th \in 0 .. 3 : SubscribeStart(r, v, d, th)
  \/ \E r \in SubReqIds : SubscribeSelect(r)
  \/ \E r \in SubReqIds : SubscribeWrite(r)

\* Runs one at a time, collaborators reliable
SpecAlerts == InitAlerts /\ [][NextAlerts]_vars
\* Overlapping runs
SpecAlertsConc == InitAlertsConc /\ [][NextAlertsConc]_vars
\* Runs one at a time, collaborators may fail
SpecAlertsFaults == InitAlertsFaults /\ [][NextAlertsFaults]_vars
\* Concurrent subscribe calls on the schema of the repository
SpecSubscribe == InitSubscribe /\ [][NextSubscribe]_vars
\* Concurrent subscribe calls, with or without the unique constraint
SpecSubscribeAnySchema == InitSubscribeAnySchema /\ [][NextSubscribe]_vars

SpecSubscribeInputs == InitSubscribe /\ [][NextSubscribeInputs]_vars

SpecReports == InitReports /\ [][NextReports]_vars

SpecReportsConc == InitReportsConc /\ [][NextReportsConc]_vars

SpecReportsRace == InitReportsConc /\ [][NextReportsRace]_vars

\* One device, one venue, one submission at a time, storage may fail
SpecReportsFaults == InitReportsConc /\ [][NextReportsFaults]_vars

\* One device, one venue, interleaved submissions
SpecReportsSoft == InitReportsConc /\ [][NextReportsSoft]_vars

\* Baseline stores the venue page may find
PageInitBaselines ==
  { {},
    { [venue_id |-> "v1", dow |-> 0, hour |-> 0, mean_score |-> <<3, 1>>, n |-> 50],
      [venue_id |-> "v1", dow |-> 0, hour |-> 1, mean_score |-> <<1, 1>>, n |-> 4],
      [venue_id |-> "v2", dow |-> 0, hour |-> 1, mean_score |-> <<4, 1>>, n |-> 2] } }

PageInstants == {0, 20 * 60, 60 * 60}

InitVenuePage ==
  /\ InitCommon
  /\ now = 0
  /\ subs = <<>>
  /\ uniqueConstraint = TRUE
  /\ reports \in AlertInitReports
  /\ baselines \in PageInitBaselines
  /\ upserts = {}

NextVenuePage ==
  \/ \E v \in Venues : PageLoadReports(v)
  \/ \E v \in Venues : PageReportsFail(v)
  \/ PageRender
  \/ PageRenderBaseErr
  \/ Tick(PageInstants)

SpecVenuePage == InitVenuePage /\ [][NextVenuePage]_vars

\* Inputs of the scorer: up to MaxScored reports of any status 1 .. 4, made
\* now, 10 or 40 minutes ago, or so long ago that the weight underflows
ScorerAges == {0, 10 * 60, 40 * 60, Underflow}

ScorerReports ==
  {Report("v1", "d1", st, 0 - age) : st \in 1 .. 4, age \in ScorerAges}

\* 9 reports of status 1 and 1 report of status 4 with the same timestamp
NineOnesOneFour ==
  [n \in 1 .. 10 |-> Report("v1", "d1", IF n = 10 THEN 4 ELSE 1, 0 - 10 * 60)]

\* status 1 at 1, 5 and 8 minutes of age
ThreeOnes ==
  << Report("v1", "d1", 1, 0 - 60), Report("v1", "d2", 1, 0 - 5 * 60),
     Report("v1", "d1", 1, 0 - 8 * 60) >>

ScorerInputs ==
  UNION {[1 .. n -> ScorerReports] : n \in 0 .. MaxScored}
    \cup {NineOnesOneFour, ThreeOnes}

ScorerInstants == {0, 5 * 60}

\* Score, label, trend and confidence of the stored reports, as the page
\* computes them
ScoreReports ==
  /\ page.pc = "idle"
  /\ LET score == computeDecayedScorePage(DOMAIN reports)
     IN  page' = [IdlePage EXCEPT !.pc = "scored", !.ids = DOMAIN reports,
                                  !.at = now,
                                  !.trend = computeTrend(DOMAIN reports),
                                  !.confidence =
                                     confidenceFrom(LatestCreatedAt(DOMAIN reports),
                                                    Len(reports)),
                                  !.score = score, !.label = labelFromScorePage(score)]
  /\ UNCHANGED <<now, subs, subReq, runs, alerts, reports, uniqueConstraint,
                 baselines, repReq, upserts, modal>>

\* Signals given to the label classifiers, in hundredths: 1.00 .. 4.00
MaxSignal == 400

Signals == {[num |-> n, den |-> 100] : n \in 100 .. MaxSignal}

\* One of the three copies of labelFromScore classifies the signal
Classify(copy) ==
  /\ page.pc = "idle"
  /\ page' = [page EXCEPT
        !.pc = copy,
        !.label = IF copy = "run" THEN labelFromScore(page.score)
                  ELSE IF copy = "page" THEN labelFromScorePage(page.score)
                  ELSE labelFromScoreHome(page.score)]
  /\ UNCHANGED <<now, subs, subReq, runs, alerts, reports, uniqueConstraint,
                 baselines, repReq, upserts, modal>>

\* Inputs of the confidence rule: up to MaxScored reports of status 2, made
\* at the start of the scenario or 10, 25 or 30 minutes before it; the page
\* is computed 0, 24, 30 or 36 seconds or 5 minutes into the scenario
ConfidenceReports ==
  {Report("v1", "d1", 2, 0 - age) : age \in {0, 10 * 60, 25 * 60, 30 * 60}}

ConfidenceInputs ==
  UNION {[1 .. n -> ConfidenceReports] : n \in 0 .. MaxScored}

ConfidenceInstants == {0, 24, 30, 36, 5 * 60}

InitConfidence ==
  /\ InitCommon
  /\ now = 0
  /\ subs = <<>>
  /\ uniqueConstraint = TRUE
  /\ reports \in ConfidenceInputs
  /\ baselines = {} /\ upserts = {}

NextConfidence ==
  \/ ScoreReports
  \/ Tick(ConfidenceInstants)

SpecConfidence == InitConfidence /\ [][NextConfidence]_vars

\* Inputs of the trend: up to MaxTrend reports of status 1 or 4, aged 10, 30,
\* 40, 90 or 100 minutes at the start of the scenario
MaxTrend == 4

TrendReports ==
  {Report("v1", "d1", st, 0 - age) :
     st \in {1, 4}, age \in {10 * 60, 30 * 60, 40 * 60, 90 * 60, 100 * 60}}

TrendInputs == UNION {[1 .. n -> TrendReports] : n \in 0 .. MaxTrend}

TrendInstants == {0, 60}

InitTrend ==
  /\ InitCommon
  /\ now = 0
  /\ subs = <<>>
  /\ uniqueConstraint = TRUE
  /\ reports \in TrendInputs
  /\ baselines = {} /\ upserts = {}

NextTrend ==
  \/ ScoreReports
  \/ Tick(TrendInstants)

SpecTrend == InitTrend /\ [][NextTrend]_vars

\* Inputs of the damping: up to MaxTrend reports of any status 1 .. 4, aged
\* 10, 40 or 60 minutes
DampingReports ==
  {Report("v1", "d1", st, 0 - age) :
     st \in 1 .. 4, age \in {10 * 60, 40 * 60, 60 * 60}}

DampingInputs == UNION {[1 .. n -> DampingReports] : n \in 0 .. MaxTrend}

InitDamping ==
  /\ InitCommon
  /\ now = 0
  /\ subs = <<>>
  /\ uniqueConstraint = TRUE
  /\ reports \in DampingInputs
  /\ baselines = {} /\ upserts = {}

NextDamping == ScoreReports

SpecDamping == InitDamping /\ [][NextDamping]_vars

InitModal ==
  /\ subReq = [r \in SubReqIds |-> IdleSubReq(0)]
  /\ runs = [k \in RunIds |-> IdleRun(NoResp)]
  /\ alerts = [i \in 1 .. MaxRows |-> <<>>]
  /\ repReq = [r \in RepReqIds |-> IdleRepReq(RepResp(0, 0))]
  /\ page = IdlePage
  /\ now = 0
  /\ subs = <<>>
  /\ uniqueConstraint = TRUE
  /\ reports = <<>>
  /\ baselines = {} /\ upserts = {}
  /\ modal \in {ClosedModal(isSticky) : isSticky \in BOOLEAN}

NextModal ==
  \/ OpenModal
  \/ ClickBackdrop
  \/ ClickCancel
  \/ \E opt \in CrowdStatuses : ClickOption(opt)
  \/ ToggleLineOutside
  \/ ClickSubmit
  \/ SubmitResolves
  \/ SubmitThrows
  \/ ConfirmationExpires
  \/ ReloadPage

SpecModal == InitModal /\ [][NextModal]_vars

InitLabels ==
  /\ subReq = [r \in SubReqIds |-> IdleSubReq(0)]
  /\ runs = [k \in RunIds |-> IdleRun(NoResp)]
  /\ alerts = [i \in 1 .. MaxRows |-> <<>>]
  /\ repReq = [r \in RepReqIds |-> IdleRepReq(RepResp(0, 0))]
  /\ now = 0
  /\ subs = <<>>
  /\ uniqueConstraint = TRUE
  /\ reports = <<>>
  /\ baselines = {} /\ upserts = {}
  /\ page \in {[IdlePage EXCEPT !.score = s] : s \in Signals}
  /\ modal = ClosedModal(FALSE)

NextLabels == \E copy \in {"run", "page", "home"} : Classify(copy)

SpecLabels == InitLabels /\ [][NextLabels]_vars

InitScorer ==
  /\ InitCommon
  /\ now = 0
  /\ subs = <<>>
  /\ uniqueConstraint = TRUE
  /\ reports \in ScorerInputs
  /\ baselines = {} /\ upserts = {}

NextScorer ==
  \/ ScoreReports
  \/ Tick(ScorerInstants)

SpecScorer == InitScorer /\ [][NextScorer]_vars

-----------------------------------------------------------------------------
(* Properties of the alert run *)

\* The step of run k that takes sub through one iteration of its loop
Handles(k, sub) ==
  /\ runs[k].pc = "loop" /\ sub \in runs[k].pending
  /\ runs'[k].pc = "loop" /\ runs'[k].pending = runs[k].pending \ {sub}

\* The stored last_triggered_at of row id is set and less than 60 minutes
\* before the `now` of run k
StoredCooldown(k, id) ==
  /\ subs[id].last_triggered_at # NULL
  /\ runs[k].now - subs[id].last_triggered_at[1] < 3600

\* The iteration notified sub, entered its cooldown and counted it
Triggered(k, sub) ==
  /\ alerts'[sub.id] = Append(alerts[sub.id], [at |-> now, delivered |-> TRUE])
  /\ subs'[sub.id].last_triggered_at = <<now>>
  /\ runs'[k].triggered = runs[k].triggered + 1

\* The iteration left every store, log and count as it was
NotTriggered(k) ==
  /\ alerts' = alerts
  /\ subs' = subs
  /\ runs'[k].triggered = runs[k].triggered

DeliveredAt(id) ==
  {i \in 1 .. Len(alerts[id]) : alerts[id][i].delivered}

\* C1: a run never triggers a subscription whose last_triggered_at is less
\* than 60 minutes before the run's now; one whose last_triggered_at is null
\* or at least 60 minutes old is evaluated against its threshold (and fires
\* when the threshold is met); and with runs one at a time two alerts of
\* one subscription are at least 60 minutes apart.
C1_Cooldown ==
  [][\A k \in RunIds : \A sub \in runs[k].pending :
        Handles(k, sub) =>
          /\ StoredCooldown(k, sub.id) => NotTriggered(k)
          /\ (~StoredCooldown(k, sub.id)
                /\ ShouldTrigger(sub.threshold, LabelNumOf(k, sub)))
               => Triggered(k, sub)
          /\ \A i \in DeliveredAt(sub.id) :
                Triggered(k, sub) => now - alerts[sub.id][i].at >= 3600]_vars

\* C1 witness: a subscription alerted at 0 and again exactly 60 minutes
\* later has been passed over by the run one minute after that
C1_Witness ==
  \E k \in RunIds : \E id \in DOMAIN subs :
     /\ runs[k].pc = "loop" /\ runs[k].now = 61 * 60
     /\ subs[id].active
     /\ \A sub \in runs[k].pending : sub.id # id
     /\ Len(alerts[id]) = 2
     /\ alerts[id][1].at = 0 /\ alerts[id][2].at = 3600

\* C6: a subscription that is not in cooldown is triggered exactly when its
\* threshold is 2 and the label number of its venue is 1 or 2, or its
\* threshold is 1 and that number is 1; High and Insane trigger nothing.
C6_Threshold ==
  [][\A k \in RunIds : \A sub \in runs[k].pending :
        (Handles(k, sub) /\ ~StoredCooldown(k, sub.id)) =>
          LET ord == LabelNumOf(k, sub)
              met == \/ sub.threshold = 2 /\ ord \in {1, 2}
                     \/ sub.threshold = 1 /\ ord = 1
          IN  /\ met => Triggered(k, sub)
              /\ ~met => NotTriggered(k)
              /\ ord \in {3, 4} => NotTriggered(k)]_vars

\* C6 witness: one run has alerted a threshold-1 subscription (venue Low)
\* and passed over a never-triggered threshold-2 subscription (venue High)
C6_Witness ==
  \E k \in RunIds : \E a, b \in DOMAIN subs :
     /\ runs[k].pc = "loop" /\ runs[k].pending = {} /\ runs[k].loaded = 3
     /\ subs[a].threshold = 1 /\ Len(alerts[a]) = 1
     /\ subs[b].threshold = 2 /\ subs[b].active
     /\ subs[b].last_triggered_at = NULL /\ alerts[b] = <<>>

\* An alert of row id fails in this step
AlertFails(id) ==
  alerts'[id] = Append(alerts[id], [at |-> now, delivered |-> FALSE])

\* C2: last_triggered_at changes only in a step that delivers the alert of
\* that subscription; a failed alert leaves every last_triggered_at as it
\* was and is counted by no run, so the subscription enters no cooldown.
C2_OnlyOnDelivery ==
  [][\A id \in DOMAIN subs :
        /\ subs'[id].last_triggered_at # subs[id].last_triggered_at
             => alerts'[id] = Append(alerts[id], [at |-> now, delivered |-> TRUE])
        /\ AlertFails(id) =>
             /\ subs' = subs
             /\ \A k \in RunIds :
                   /\ runs'[k].triggered <= runs[k].triggered
                   /\ runs'[k].resp.triggered <= runs[k].resp.triggered]_vars

\* C2 witness: an alert failed and a later run, less than 60 minutes after
\* the failure, delivered it
C2_Witness ==
  \E id \in DOMAIN subs :
     /\ Len(alerts[id]) = 2
     /\ ~alerts[id][1].delivered /\ alerts[id][2].delivered
     /\ alerts[id][2].at - alerts[id][1].at < 3600
     /\ subs[id].last_triggered_at = <<alerts[id][2].at>>

\* The delivered alerts of row id in the 60 minutes that start with alert i
InWindow(id, i) ==
  {j \in DeliveredAt(id) :
     /\ alerts[id][j].at >= alerts[id][i].at
     /\ alerts[id][j].at < alerts[id][i].at + 3600}

\* C5 as claimed: with overlapping runs, at most two alerts of one
\* subscription fall into any 60-minute window.
C5_AtMostTwo ==
  \A id \in DOMAIN subs : \A i \in DeliveredAt(id) :
     Cardinality(InWindow(id, i)) <= 2

\* C5 as amended: at most as many alerts of one subscription fall into any
\* 60-minute window as there are runs in flight together.
C5_AtMostRuns ==
  \A id \in DOMAIN subs : \A i \in DeliveredAt(id) :
     Cardinality(InWindow(id, i)) <= MaxRuns

\* C5 witness: every run in flight has alerted the same subscription at the
\* same clock reading
C5_Witness ==
  \E id \in DOMAIN subs :
     /\ Len(alerts[id]) = MaxRuns
     /\ \A i \in 1 .. Len(alerts[id]) :
           alerts[id][i].delivered /\ alerts[id][i].at = alerts[id][1].at

-----------------------------------------------------------------------------
(* Subscribe route *)

\* Request r answers in this step
SubscribeAnswers(r) == subReq[r].pc = "write" /\ subReq'[r].pc = "idle"

\* C8 (as stated): a subscribe call for a triple whose stored row is inactive
\* answers 200 and leaves exactly one row of the triple, which is active
C8_ReactivatesInactive ==
  [][\A r \in SubReqIds : \A v \in Venues, d \in Devices, th \in Thresholds :
       ( /\ SubscribeAnswers(r)
         /\ subReq[r].venue_id = v /\ subReq[r].device_id = d
         /\ subReq[r].threshold = th
         /\ RowsOfTriple(v, d, th) # {}
         /\ \A i \in RowsOfTriple(v, d, th) : ~subs[i].active )
       => ( /\ subReq'[r].status = 200
            /\ Cardinality(RowsOfTriple(v, d, th)') = 1
            /\ \A i \in RowsOfTriple(v, d, th)' : subs'[i].active )]_vars

\* C9: a subscribe call that found an active row of its triple answers 200,
\* leaves exactly one row of the triple, adds no row, and changes no field of
\* any row except that the found row's active flag is true; when the row is
\* still active the store is left exactly as it was
C9_Idempotent ==
  [][\A r \in SubReqIds : \A v \in Venues, d \in Devices, th \in Thresholds :
       ( /\ SubscribeAnswers(r)
         /\ subReq[r].venue_id = v /\ subReq[r].device_id = d
         /\ subReq[r].threshold = th
         /\ subReq[r].existing # 0 )
       => ( /\ subReq'[r].status = 200
            /\ subs' = [subs EXCEPT ![subReq[r].existing].active = TRUE]
            /\ (subs[subReq[r].existing].active => subs' = subs)
            /\ RowsOfTriple(v, d, th)' = {subReq[r].existing} )]_vars

\* A re-subscribe of the initial active row answered 200 and the row still has
\* its created_at and last_triggered_at, with no second row
C9_Witness ==
  /\ subs = << Row("v1", "d1", 2, TRUE, 0, Some(0)) >>
  /\ \E r \in SubReqIds : subReq[r].pc = "idle" /\ subReq[r].status = 200

AtMostOneRowPerTriple ==
  \A i, j \in DOMAIN subs :
    SameTriple(subs[i], subs[j].venue_id, subs[j].device_id, subs[j].threshold)
      => i = j

-----------------------------------------------------------------------------
(* Report route *)

\* Request r leaves Guardrail A, or Guardrail B, in this step
GuardADecides(r) == repReq[r].pc = "guardA" /\ repReq'[r].pc # "guardA"
GuardBDecides(r) == repReq[r].pc = "guardB" /\ repReq'[r].pc # "guardB"

\* Report i is the newest stored report of device d for venue v
Latest(i, v, d) ==
  /\ reports[i].venue_id = v /\ reports[i].device_id = d
  /\ \A j \in DOMAIN reports :
       (reports[j].venue_id = v /\ reports[j].device_id = d)
         => reports[j].created_at <= reports[i].created_at

\* w is max(1, ceil(10 - age / 60)) for an age in seconds
IsWaitHint(w, age) ==
  /\ w >= 1
  /\ 60 * w >= 600 - age
  /\ (w = 1 \/ 60 * (w - 1) < 600 - age)

SpacedTenMinutes ==
  \A i, j \in DOMAIN reports :
    (i # j /\ reports[i].venue_id = reports[j].venue_id
           /\ reports[i].device_id = reports[j].device_id)
      => Abs(reports[i].created_at - reports[j].created_at) >= 600

\* C3: handled one at a time, a report is rejected by Guardrail A (429, with
\* wait = max(1, ceil(10 - ageMinutes))) exactly when the newest stored report
\* of the same device for the same venue is less than 10 minutes old, else it
\* goes on to Guardrail B; and any two stored reports of one device for one
\* venue are at least 10 minutes apart
C3_ReportCooldown ==
  /\ []SpacedTenMinutes
  /\ [][\A r \in RepReqIds : \A i \in DOMAIN reports :
          ( /\ GuardADecides(r)
            /\ Latest(i, repReq[r].venue_id, repReq[r].device_id)
            /\ now - reports[i].created_at < 600 )
          => ( /\ repReq'[r].pc = "idle"
               /\ repReq'[r].resp.status = 429
               /\ IsWaitHint(repReq'[r].resp.wait, now - reports[i].created_at) )]_vars
  /\ [][\A r \in RepReqIds :
          ( /\ GuardADecides(r)
            /\ \A i \in DOMAIN reports :
                 Latest(i, repReq[r].venue_id, repReq[r].device_id)
                   => now - reports[i].created_at >= 600 )
          => repReq'[r].pc = "guardB"]_vars

\* d1 reported for v1 at t = 0 of the scenario; 9 minutes later a report got 429
\* with wait 1
C3_Witness ==
  /\ now = 20 * 600 + 540
  /\ reports = << Report("v1", "d1", 3, 20 * 600) >>
  /\ \E r \in RepReqIds : repReq[r].pc = "idle" /\ repReq[r].resp = RepResp(429, 1)

\* Stored reports of device d created on the day of report i
SameDay(d, i) ==
  {j \in DOMAIN reports :
     /\ reports[j].device_id = d
     /\ reports[j].created_at \div (24 * 60 * 60)
          = reports[i].created_at \div (24 * 60 * 60)}

\* Stored reports of device d since the last midnight
SinceMidnight(d) ==
  {j \in DOMAIN reports :
     /\ reports[j].device_id = d
     /\ reports[j].created_at \div (24 * 60 * 60) = now \div (24 * 60 * 60)}

\* C7: handled one at a time, a report that reaches Guardrail B from a device
\* with 20 or more stored reports since midnight, over all venues, is rejected
\* with 429; and no device has more than 20 stored reports of one day
C7_DailyCap ==
  /\ [](\A i \in DOMAIN reports :
          Cardinality(SameDay(reports[i].device_id, i)) <= 20)
  /\ [][\A r \in RepReqIds :
          (GuardBDecides(r) /\ Cardinality(SinceMidnight(repReq[r].device_id)) >= 20)
          => (repReq'[r].pc = "idle" /\ repReq'[r].resp.status = 429)]_vars

\* d1 has 20 reports today, of both venues, and a report met the daily cap
C7_Witness ==
  /\ Cardinality(SinceMidnight("d1")) = 20
  /\ \E i, j \in SinceMidnight("d1") : reports[i].venue_id # reports[j].venue_id
  /\ \E r \in RepReqIds : repReq[r].pc = "idle" /\ repReq[r].resp = RepResp(429, 0)

\* C4 (as stated): once no report is in flight, every bucket's n is the number
\* of reports applied to it and its mean is their arithmetic mean
C4_NoLostUpdate ==
  (\A r \in RepReqIds : repReq[r].pc = "idle")
    => \A b \in baselines :
         \E u \in upserts :
           /\ u.venue_id = b.venue_id /\ u.dow = b.dow /\ u.hour = b.hour
           /\ b.n = u.n
           /\ b.mean_score[1] * u.n = u.sum * b.mean_score[2]

-----------------------------------------------------------------------------
(* Failures inside the loop of the alert run *)

\* Run k ends in this step
RunEnds(k) == runs[k].pc = "loop" /\ runs'[k].pc = "idle"

\* C11 (as stated): a run that entered its loop ends only after every loaded
\* subscription had its iteration, and then answers with its counts; a failed
\* alert or update of one subscription does not end the run
C11_FailureContained ==
  [][\A k \in RunIds :
       RunEnds(k) => /\ runs[k].pending = {}
                     /\ runs'[k].resp.status = 200
                     /\ runs'[k].resp.processed = runs[k].loaded]_vars

-----------------------------------------------------------------------------
(* Baseline buckets *)

\* The bucket's mean lies in [1, 4] and its n is not negative
BucketInRange(b) ==
  /\ b.mean_score[1] >= b.mean_score[2]
  /\ b.mean_score[1] <= 4 * b.mean_score[2]
  /\ b.n >= 0

\* Every stored bucket is still stored in the next state with an n that is
\* not smaller
BucketCountsGrow ==
  \A b \in baselines :
    \E c \in baselines' :
      /\ c.venue_id = b.venue_id /\ c.dow = b.dow /\ c.hour = b.hour
      /\ c.n >= b.n

\* C12 (as stated): under interleaved report submissions every stored bucket
\* has its mean in [1, 4] and n >= 0, and the n of a key never decreases from
\* one state to the next
C12_BucketInvariants ==
  /\ [](\A b \in baselines : BucketInRange(b))
  /\ [][BucketCountsGrow]_vars

\* Request r writes its bucket in this step
UpsertApplies(r) == repReq[r].pc = "upsert" /\ repReq'[r].pc = "idle"

\* Bucket c is bucket (mean, n) after one more report of status s
IsNextBucket(c, mean, n, s) ==
  /\ c.n = n + 1
  /\ c.mean_score[1] * mean[2] * (n + 1) = (mean[1] * n + s * mean[2]) * c.mean_score[2]

\* Every stored bucket holds the number and the arithmetic mean of the
\* statuses applied to its key
BucketsAreMeans ==
  \A b \in baselines :
    \E u \in upserts :
      /\ u.venue_id = b.venue_id /\ u.dow = b.dow /\ u.hour = b.hour
      /\ b.n = u.n /\ u.n >= 1
      /\ b.mean_score[1] * u.n = u.sum * b.mean_score[2]

\* C13: with reports applied one at a time, an accepted report of status s
\* takes its bucket from (mean, n) to ((mean * n + s) / (n + 1), n + 1), from
\* (2.0, 0) when the bucket does not exist, leaving one row for the key; so
\* after k reports a bucket has n = k and the mean of the k statuses
C13_IncrementalMean ==
  /\ []BucketsAreMeans
  /\ [][\A r \in RepReqIds : \A v \in Venues, dw \in 0 .. 6, h \in 0 .. 23 :
          ( /\ UpsertApplies(r)
            /\ repReq[r].venue_id = v /\ repReq[r].dow = dw /\ repReq[r].hour = h )
          => /\ \A b \in Bucket(v, dw, h) :
                  \A c \in Bucket(v, dw, h)' :
                     IsNextBucket(c, b.mean_score, b.n, repReq[r].status)
             /\ Bucket(v, dw, h) = {} =>
                  \A c \in Bucket(v, dw, h)' :
                     IsNextBucket(c, <<2, 1>>, 0, repReq[r].status)
             /\ Cardinality(Bucket(v, dw, h)') = 1]_vars

\* Two reports of status 3 were applied to a bucket nobody had reported into:
\* n = 2 and mean 3
C13_Witness ==
  /\ \A r \in RepReqIds : repReq[r].pc = "idle"
  /\ \E b \in baselines : b.n = 2 /\ b.mean_score = <<3, 1>>
  /\ \A i \in DOMAIN reports : reports[i].status = 3

-----------------------------------------------------------------------------
(* Rejected reports *)

\* Request r is answered with a rejection in this step
Rejected(r) ==
  /\ repReq'[r] # repReq[r]
  /\ repReq'[r].pc = "idle"
  /\ repReq'[r].resp.status \in {400, 429}

\* The report of request r is in the store
Inserted(r) ==
  \E i \in DOMAIN reports :
    /\ reports[i].venue_id = repReq[r].venue_id
    /\ reports[i].device_id = repReq[r].device_id
    /\ reports[i].status = repReq[r].status

\* C14: a step that rejects a report (400 for a missing field or a bad status,
\* 429 for the cooldown or the daily cap) changes neither the report store nor
\* any baseline bucket, and the request had changed neither before; the
\* buckets change only in the upsert of a request whose report was inserted
C14_RejectedChangesNothing ==
  /\ [][\A r \in RepReqIds :
          Rejected(r) => /\ reports' = reports /\ baselines' = baselines
                         /\ repReq[r].pc \in {"idle", "guardA", "guardB"}]_vars
  /\ [][\A r \in RepReqIds :
          (repReq[r].pc \in {"idle", "guardA", "guardB"} /\ repReq'[r] # repReq[r])
            => reports' = reports /\ baselines' = baselines]_vars
  /\ [][baselines' # baselines =>
          \E r \in RepReqIds : UpsertApplies(r) /\ Inserted(r)]_vars

\* The daily cap rejected a report: the store holds the history and the one
\* report accepted since
C14_Witness ==
  /\ Len(reports) = MaxHistory + 2
  /\ \E r \in RepReqIds : repReq[r].pc = "idle" /\ repReq[r].resp = RepResp(429, 0)

-----------------------------------------------------------------------------
(* Invalid input *)

\* C15 (as stated): no call goes on to its storage calls with invalid input:
\* a subscribe call past its validation names a known venue and a threshold
\* of 1 or 2, a report call past its validation names a known venue and a
\* status of 1 .. 4
C15_InvalidInputRejectedFirst ==
  /\ \A r \in SubReqIds :
       subReq[r].pc # "idle" =>
         subReq[r].venue_id \in KnownVenues /\ subReq[r].threshold \in {1, 2}
  /\ \A r \in RepReqIds :
       repReq[r].pc # "idle" =>
         repReq[r].venue_id \in KnownVenues /\ repReq[r].status \in {1, 2, 3, 4}

(***************************************************************************)
(* Guardrails and insert are not atomic                                    *)
(***************************************************************************)

\* stored reports of the device and venue of report i made less than 10
\* minutes from it, report i included
CloseTo(i) ==
  {j \in DOMAIN reports :
     /\ reports[j].venue_id = reports[i].venue_id
     /\ reports[j].device_id = reports[i].device_id
     /\ Abs(reports[j].created_at - reports[i].created_at) < 600}

\* C16: with interleaved requests the cooldown is a soft limit: reports of one
\* device for one venue less than 10 minutes apart can be stored, one for each
\* request that passed Guardrail A before the first of them was inserted, so
\* never more of them than requests can be in flight at once
C16_SoftLimit ==
  \A i \in DOMAIN reports : Cardinality(CloseTo(i)) <= MaxRepReq

\* two reports of d1 for v1 are stored with the same created_at
C16_Witness ==
  \E i, j \in DOMAIN reports :
    /\ i # j
    /\ reports[i].venue_id = "v1" /\ reports[j].venue_id = "v1"
    /\ reports[i].device_id = "d1" /\ reports[j].device_id = "d1"
    /\ Abs(reports[i].created_at - reports[j].created_at) < 600

(***************************************************************************)
(* What an alert run reads and writes                                      *)
(***************************************************************************)

\* A step of an alert run: every step of a run moves the run's record
RunStep == runs' # runs

\* Run k loads the subscriptions in this step
RunLoads(k) == runs[k].pc = "idle" /\ runs'[k] # runs[k]

\* Row id keeps venue, device, threshold, active and created_at
SameSubscription(id) ==
  /\ subs'[id].venue_id = subs[id].venue_id
  /\ subs'[id].device_id = subs[id].device_id
  /\ subs'[id].threshold = subs[id].threshold
  /\ subs'[id].active = subs[id].active
  /\ subs'[id].created_at = subs[id].created_at

\* Row id is notified or written in this step
Touched(id) ==
  \/ alerts'[id] # alerts[id]
  \/ subs'[id].last_triggered_at # subs[id].last_triggered_at

\* C17 (amended): a run loads only rows that are active at the moment of the
\* load and afterwards only drops rows from what it loaded; a step of a run
\* leaves reports and baseline buckets alone, adds and removes no
\* subscription and keeps venue, device, threshold and active of every row;
\* a row is notified or written only by the iteration of a run that loaded
\* it, which sets its last_triggered_at to now
C17_RunFrame ==
  /\ [][\A k \in RunIds :
          /\ RunLoads(k) =>
               \A sub \in runs'[k].pending :
                 sub.id \in DOMAIN subs /\ subs[sub.id].active
          /\ ~RunLoads(k) => runs'[k].pending \subseteq runs[k].pending]_vars
  /\ [][RunStep =>
          /\ reports' = reports /\ baselines' = baselines
          /\ DOMAIN subs' = DOMAIN subs
          /\ \A id \in DOMAIN subs :
               /\ SameSubscription(id)
               /\ Touched(id) =>
                    \E k \in RunIds : \E sub \in runs[k].pending :
                      sub.id = id /\ Handles(k, sub) /\ Triggered(k, sub)]_vars

\* C17 (as stated): an iteration never notifies or writes a row whose active
\* is false when the iteration happens
C17_NeverInactive ==
  [][\A k \in RunIds : \A sub \in runs[k].pending :
       (Handles(k, sub) /\ ~subs[sub.id].active) => ~Touched(sub.id)]_vars

\* A run over two active rows has answered and triggered; the third row was
\* inactive and has no alert and no last_triggered_at
C17_Witness ==
  /\ Len(subs) = 3
  /\ runs[1].pc = "idle" /\ runs[1].resp.status = 200
  /\ runs[1].resp.processed = 2 /\ runs[1].resp.triggered >= 1
  /\ \E id \in DOMAIN subs :
       /\ ~subs[id].active
       /\ alerts[id] = <<>> /\ subs[id].last_triggered_at = NULL
  /\ \E id \in DOMAIN subs :
       subs[id].active /\ subs[id].last_triggered_at # NULL

(***************************************************************************)
(* The counts an alert run returns                                         *)
(***************************************************************************)

\* Run k completes in this step: it answers from the return after the loop
\* or from the return of the empty batch
RunCompletes(k) ==
  /\ runs[k].pc # "idle" \/ RunLoads(k)
  /\ runs'[k].pc = "idle" /\ runs'[k].resp.status = 200

ActiveRows == {id \in DOMAIN subs : subs[id].active}

\* C18 (as stated): a run counts a subscription as triggered exactly in the
\* iterations that notify it and set its last_triggered_at; a run that
\* completes after its loop answers processed = the number of rows it loaded
\* and triggered = that count, with 0 <= triggered <= processed; a run that
\* finds no active subscription answers processed = 0 and triggered = 0 in
\* the step of the load, without a step that loads reports
C18_Counts ==
  /\ [][\A k \in RunIds :
          (runs[k].pc = "loop" /\ runs'[k].pc = "loop") =>
            /\ runs'[k].triggered # runs[k].triggered =>
                 \E sub \in runs[k].pending : Handles(k, sub) /\ Triggered(k, sub)
            /\ \A sub \in runs[k].pending :
                 (Handles(k, sub) /\ Touched(sub.id)) =>
                   runs'[k].triggered = runs[k].triggered + 1]_vars
  /\ [][\A k \in RunIds :
          (RunCompletes(k) /\ ~RunLoads(k)) =>
            /\ runs[k].pc = "loop" /\ runs[k].pending = {}
            /\ runs'[k].resp.processed = runs[k].loaded
            /\ runs'[k].resp.triggered = runs[k].triggered
            /\ 0 <= runs[k].triggered /\ runs[k].triggered <= runs[k].loaded]_vars
  /\ [][\A k \in RunIds :
          RunLoads(k) =>
            IF ActiveRows = {}
            THEN /\ runs'[k].pc = "idle"
                 /\ runs'[k].resp = Resp(200, 0, 0)
            ELSE /\ runs'[k].pc = "reports"
                 /\ runs'[k].loaded = Cardinality(ActiveRows)]_vars

(***************************************************************************)
(* The prediction row of the venue page                                    *)
(***************************************************************************)

\* C19 (as stated): a page whose baselines query failed still shows one
\* prediction for each of the horizons 30, 60, 90, each with the label of the
\* current score alone
C19_BaselineFailureKeepsPredictions ==
  (page.pc = "done" /\ page.baseErr) =>
    page.predictions =
      Some([h \in 1 .. 3 |->
              [minutes |-> horizons[h], label |-> labelFromScore(page.score)]])

(***************************************************************************)
(* The range of the score                                                  *)
(***************************************************************************)

\* C20: computeDecayedScore of no reports is exactly 2, which is labelled
\* Medium; of one or more reports with status 1 .. 4 it is a value in [1, 4]
C20_ScoreRange ==
  page.pc = "scored" =>
    IF page.ids = {}
    THEN page.score = [num |-> 2, den |-> 1] /\ page.label = "Medium"
    ELSE /\ page.score.den > 0
         /\ page.score.den <= page.score.num
         /\ page.score.num <= 4 * page.score.den

\* Three reports were scored, one of status 4 among two of status 1, and the
\* score is neither the default nor a whole status
C20_Witness ==
  /\ page.pc = "scored"
  /\ Cardinality(page.ids) = 3
  /\ \E i \in page.ids : reports[i].status = 4
  /\ Cardinality({i \in page.ids : reports[i].status = 1}) = 2
  /\ page.score.den < page.score.num
  /\ page.score.num < 2 * page.score.den

(***************************************************************************)
(* The damped final pass                                                   *)
(***************************************************************************)

\* The age of stored report i
AgeOf(i) == now - reports[i].created_at

\* The quick consensus of the scored reports
ScoredConsensus == ConsensusNum(page.ids, now)

\* The weight of report i in the final pass is its decay weight, times 0.25
\* when its status is 2 or more away from the consensus (weights in quarters)
DampedWeight(i) ==
  PageWeight(i, ScoredConsensus) =
    ExpNeg30(AgeOf(i)) * (IF Abs(reports[i].status - ScoredConsensus) >= 2 THEN 1 ELSE 4)

\* The score just computed: the state is scored and the clock has not moved
JustScored == page.pc = "scored" /\ page.at = now

AllStatus(s) == page.ids # {} /\ \A i \in page.ids : reports[i].status = s

Hundredths == (100 * page.score.num) \div page.score.den

\* The ordinal the alert run gives to the label of the signal n / 100
OrdinalOf(n) == labelToNumber(labelFromScore([num |-> n, den |-> 100]))

\* C23: each of the three copies of labelFromScore labels a signal s Low iff
\* s < 1.6, Medium iff 1.6 <= s < 2.4, High iff 2.4 <= s < 3.2 and Insane iff
\* s >= 3.2; labelToNumber gives Low, Medium, High, Insane the ordinals 1, 2,
\* 3, 4; the ordinal does not decrease when the signal grows, and the whole
\* signal k of 1 .. 4 has the ordinal k
C23_LabelSteps ==
  page.pc \in {"run", "page", "home"} =>
    /\ page.label = "Low" <=> Hundredths < 160
    /\ page.label = "Medium" <=> (160 <= Hundredths /\ Hundredths < 240)
    /\ page.label = "High" <=> (240 <= Hundredths /\ Hundredths < 320)
    /\ page.label = "Insane" <=> Hundredths >= 320
    /\ labelToNumber("Low") = 1 /\ labelToNumber("Medium") = 2
    /\ labelToNumber("High") = 3 /\ labelToNumber("Insane") = 4
    /\ \A n \in 100 .. Hundredths : OrdinalOf(n) <= labelToNumber(page.label)
    /\ \A k \in 1 .. 4 : Hundredths = 100 * k => labelToNumber(page.label) = k

\* The venue page's copy labelled the signal 2.40 High
C23_Witness ==
  page.pc = "page" /\ Hundredths = 240 /\ page.label = "High"

(***************************************************************************)
(* The confidence rule                                                     *)
(***************************************************************************)

\* The age in seconds of the most recent scored report
LatestAge == now - ValueOf(LatestCreatedAt(page.ids))

\* The confidence the rule gives for the age a, in minutes, and the count c
RuleConfidence(aNum, aDen, c) ==
  IF aNum <= 10 * aDen /\ c >= 3 THEN "High"
  ELSE IF aNum <= 25 * aDen /\ c >= 2 THEN "Medium"
  ELSE "Low"

ConfidenceOrdinal(c) == IF c = "Low" THEN 1 ELSE IF c = "Medium" THEN 2 ELSE 3

\* C24 (amended): without reports the confidence is Low; otherwise the rule
\* (High iff a <= 10 and c >= 3, else Medium iff a <= 25 and c >= 2, else
\* Low) is applied to a = the age of the most recent report rounded to the
\* nearest whole minute, halves upward; and with three reports a younger
\* most recent report never has the lower confidence
C24_ConfidenceRounded ==
  JustScored =>
    /\ page.ids = {} => page.confidence = "Low"
    /\ page.ids # {} =>
         page.confidence =
           RuleConfidence((LatestAge + 30) \div 60, 1, Cardinality(page.ids))
    /\ \A t1, t2 \in {0 - 30 * 60, 0 - 25 * 60, 0 - 10 * 60, 0 - 5 * 60, 0} :
         t1 <= t2 =>
           ConfidenceOrdinal(confidenceFrom(Some(t1), 3))
             <= ConfidenceOrdinal(confidenceFrom(Some(t2), 3))

\* C24 (as stated): the rule is applied to the age as it is, whole or not
C24_ConfidenceExact ==
  JustScored =>
    /\ page.ids = {} => page.confidence = "Low"
    /\ page.ids # {} =>
         page.confidence = RuleConfidence(LatestAge, 60, Cardinality(page.ids))

\* Three reports, the most recent 10 minutes and 24 seconds old: High
C24_Witness ==
  /\ JustScored
  /\ Cardinality(page.ids) = 3
  /\ LatestAge = 10 * 60 + 24
  /\ page.confidence = "High"

(***************************************************************************)
(* The trend                                                               *)
(***************************************************************************)

\* The scored reports aged at most 30 minutes, and those aged more than 30
\* and at most 90 minutes
Recent == {i \in page.ids : AgeOf(i) <= 30 * 60}
Earlier == {i \in page.ids : AgeOf(i) > 30 * 60 /\ AgeOf(i) <= 90 * 60}

RendersPredictions ==
  page.pc = "baselines" /\ page'.pc = "done" /\ ~page'.baseErr

\* 0.55 * mean + 0.45 * score < tenths / 10, as
\* score < (tenths / 10 - 0.55 * mean) / 0.45
BlendBelow(mean, score, tenths) ==
  LET n == 10 * tenths * mean[2] - 55 * mean[1]
  IN  n > 0 /\ FracLess(score.num, score.den, n, 45 * mean[2])

\* The label of 0.55 * mean + 0.45 * score, by the bounds 1.6, 2.4 and 3.2
BlendedLabel(mean, score) ==
  IF BlendBelow(mean, score, 16) THEN "Low"
  ELSE IF BlendBelow(mean, score, 24) THEN "Medium"
  ELSE IF BlendBelow(mean, score, 32) THEN "High"
  ELSE "Insane"

\* The baseline rows of the page's venue for the bucket of now + h minutes
TargetBucket(h) ==
  Bucket(page.venue_id, getDowHourDetroit(now + h * 60).dow,
                        getDowHourDetroit(now + h * 60).hour)

\* C26: the prediction row has one entry for each of 30, 60 and 90 minutes;
\* its label is that of 0.55 * baseline + 0.45 * current when the bucket of
\* now + h has a baseline row, and that of the current signal when it has
\* none; baseline 3.0 with current signal 1.0 is labelled Medium
C26_BlendedPrediction ==
  [][RendersPredictions =>
       /\ ~IsNull(page'.predictions)
       /\ Len(ValueOf(page'.predictions)) = 3
       /\ \A k \in 1 .. 3 :
            LET pred == ValueOf(page'.predictions)[k]
                rows == TargetBucket(pred.minutes)
            IN  /\ pred.minutes = 30 * k
                /\ rows = {} => pred.label = labelFromScorePage(page.score)
                /\ rows # {} =>
                     \A b \in rows :
                       /\ pred.label = BlendedLabel(b.mean_score, page.score)
                       /\ (b.mean_score = <<3, 1>> /\ page.score.num = page.score.den)
                            => pred.label = "Medium"]_vars

\* The page of v1, whose signal is 1.0 (label Low), predicts Medium for the
\* bucket with baseline 3.0 and Low for the bucket with baseline 1.0
C26_Witness ==
  /\ page.pc = "done" /\ page.venue_id = "v1" /\ page.ids # {}
  /\ page.score.num = page.score.den /\ page.label = "Low"
  /\ ~IsNull(page.predictions)
  /\ ValueOf(page.predictions)[1] = [minutes |-> 30, label |-> "Medium"]
  /\ ValueOf(page.predictions)[2] = [minutes |-> 60, label |-> "Low"]

(***************************************************************************)
(* Subscriptions of a venue without reports                                *)
(***************************************************************************)

\* Run k loaded no report of venue v: none was made in the 3 hours before
NoRecentReports(k, v) == VenueReports(k, v) = {}

\* C27: when the run handles a subscription whose venue has no report of the
\* last 3 hours, the venue's label is Medium (ordinal 2); a threshold-2
\* subscription that is not in cooldown is triggered, also when it was
\* triggered 60 minutes or more before; a threshold-1 subscription is not
\* triggered
C27_EmptyVenueFires ==
  [][\A k \in RunIds : \A sub \in runs[k].pending :
        (Handles(k, sub) /\ NoRecentReports(k, sub.venue_id)) =>
          /\ LabelNumOf(k, sub) = 2
          /\ (sub.threshold = 2 /\ ~StoredCooldown(k, sub.id)) => Triggered(k, sub)
          /\ sub.threshold = 1 => NotTriggered(k)]_vars

\* No reports at all: the threshold-2 subscription of v1 was alerted at 0,
\* 60 and 120 minutes, the threshold-1 subscription of v1 never
C27_Witness ==
  /\ reports = <<>>
  /\ \E a, b \in DOMAIN subs :
       /\ subs[a].venue_id = "v1" /\ subs[a].threshold = 2
       /\ Len(alerts[a]) = 3
       /\ alerts[a][1].at = 0 /\ alerts[a][2].at = 60 * 60
       /\ alerts[a][3].at = 120 * 60
       /\ subs[b].venue_id = "v1" /\ subs[b].threshold = 1 /\ subs[b].active
       /\ alerts[b] = <<>>
  /\ \E k \in RunIds : runs[k].resp.status = 200 /\ runs[k].resp.processed = 3

(***************************************************************************)
(* A storage error after the insert                                        *)
(***************************************************************************)

\* Request r is answered 500 in this step, after its report was inserted
FailsAfterInsert(r) ==
  /\ repReq[r].pc \in {"baseline", "upsert"}
  /\ repReq'[r].pc = "idle" /\ repReq'[r].resp.status = 500

\* The stored reports of venue v made in the bucket (dow, hour)
ReportsOfBucket(v, dow, hour) ==
  {i \in DOMAIN reports :
     /\ reports[i].venue_id = v
     /\ getDowHourDetroit(reports[i].created_at) = [dow |-> dow, hour |-> hour]}

\* C28: a request whose baseline read or upsert fails is answered 500 with
\* its report left in the store and no bucket changed; handled one at a
\* time, a request of the same device for the same venue less than 10
\* minutes after that report is rejected by Guardrail A; and the n of a
\* bucket never exceeds the number of the stored reports of the bucket
C28_NoRollback ==
  /\ [][\A r \in RepReqIds :
          FailsAfterInsert(r) =>
            /\ reports' = reports /\ baselines' = baselines
            /\ \E i \in DOMAIN reports :
                 reports[i] = Report(repReq[r].venue_id, repReq[r].device_id,
                                     repReq[r].status, reports[i].created_at)]_vars
  /\ [][\A r \in RepReqIds : \A i \in DOMAIN reports :
          ( /\ GuardADecides(r)
            /\ Latest(i, repReq[r].venue_id, repReq[r].device_id)
            /\ now - reports[i].created_at < 600 )
          => (repReq'[r].pc = "idle" /\ repReq'[r].resp.status = 429)]_vars
  /\ [](\A b \in baselines :
          b.n <= Cardinality(ReportsOfBucket(b.venue_id, b.dow, b.hour)))

\* The report made at 0 is stored and no request is in flight, yet no bucket
\* counts it: its request was answered 500; the retry 9 minutes later got 429
C28_Witness ==
  /\ now = 9 * 60
  /\ reports = << Report("v1", "d1", 3, 0) >>
  /\ baselines = {}
  /\ \A r \in RepReqIds : repReq[r].pc = "idle"
  /\ \E r \in RepReqIds : repReq[r].resp.status = 429

(***************************************************************************)
(* The default consensus of a set without recent reports                   *)
(***************************************************************************)

\* Sum of the decay weights, and of weight * status, without damping
RECURSIVE UndampedSums(_)
UndampedSums(ids) ==
  IF ids = {} THEN [w |-> 0, s |-> 0]
  ELSE LET i == CHOOSE x \in ids : TRUE
           rest == UndampedSums(ids \ {i})
       IN  [w |-> rest.w + ExpNeg30(AgeOf(i)),
            s |-> rest.s + ExpNeg30(AgeOf(i)) * reports[i].status]

\* In the score of the set ids, with no report aged <= 30 minutes, the
\* consensus is 2, reports of status 4 have a quarter of their decay weight
\* and the others all of it
DefaultConsensus(ids) ==
  /\ ConsensusNum(ids, now) = 2
  /\ \A i \in ids :
       PageWeight(i, ConsensusNum(ids, now)) =
         IF reports[i].status = 4 THEN ExpNeg30(AgeOf(i))
         ELSE 4 * ExpNeg30(AgeOf(i))

\* The set mixes status 4 with a lower status
MixesFour(ids) ==
  /\ \E i \in ids : reports[i].status = 4
  /\ \E i \in ids : reports[i].status < 4

\* The score of the set is below its undamped weighted mean
BelowUndamped(ids) ==
  LET d == computeDecayedScorePage(ids)
      u == UndampedSums(ids)
  IN  FracLess(d.num, d.den, u.s, u.w)

\* C29: a scored set that is not empty and has no report aged <= 30 minutes
\* is scored with the consensus 2, status 4 damped to a quarter and statuses
\* 1, 2, 3 at full weight; so is the previous window of the trend, always;
\* and the score of either is below the undamped mean when the set mixes
\* status 4 with lower statuses
C29_DefaultConsensusDamps ==
  JustScored =>
    /\ (page.ids # {} /\ Recent = {}) =>
         /\ DefaultConsensus(page.ids)
         /\ MixesFour(page.ids) => BelowUndamped(page.ids)
    /\ Earlier # {} =>
         /\ DefaultConsensus(Earlier)
         /\ MixesFour(Earlier) => BelowUndamped(Earlier)

\* A trend was computed whose previous window holds a report of status 4
\* and one of status 3: the window's score is below its undamped mean
C29_Witness ==
  /\ JustScored /\ page.trend # "unknown"
  /\ Cardinality(Earlier) = 2
  /\ \E i, j \in Earlier : reports[i].status = 4 /\ reports[j].status = 3
  /\ BelowUndamped(Earlier)

-----------------------------------------------------------------------------
(* The busy flag of ReportModal *)

\* The mount of a fresh page load, keeping the count of fetches sent
Remounted == modal' = [ClosedModal(modal.isSticky) EXCEPT !.sent = modal.sent]

\* Submit, Cancel, the status options and the checkbox carry disabled={busy}
ControlsDisabled == modal.busy

\* C30: busy becomes true only by a press of Submit, which starts onSubmit;
\* it becomes false only when onSubmit throws, or when the page is loaded
\* again; a successful submission closes the modal with busy still true; and
\* from then on, until the page is loaded again, the controls of every later
\* opening are disabled and no further report is sent
C30_BusyStaysAfterSuccess ==
  /\ [](modal.succeeded => ControlsDisabled /\ ~modal.pending)
  /\ [][ /\ (~modal.busy /\ modal'.busy) =>
              (modal.open /\ modal'.pending /\ modal'.sent = modal.sent + 1)
         /\ (modal.busy /\ ~modal'.busy) =>
              \/ modal.pending /\ ~modal'.pending /\ modal'.err
                   /\ ~modal'.succeeded
              \/ Remounted
         /\ (~modal.succeeded /\ modal'.succeeded) =>
              (modal.pending /\ ~modal'.open /\ modal'.busy)
         /\ (modal.succeeded /\ ~Remounted) =>
              (modal'.succeeded /\ modal'.busy /\ modal'.sent = modal.sent)
       ]_vars

\* The modal is opened again after a successful submission, the confirmation
\* gone, and its controls are disabled
C30_Witness ==
  /\ modal.open /\ modal.succeeded /\ ~modal.showConfirmation
  /\ ControlsDisabled /\ modal.sent = 1

=============================================================================
